---- MODULE Spec2Model ----
(***************************************************************************)
(* Extension Lifecycle Manager of the pact CLI (src/src/cli/extension.rs)  *)
(* and the Command Router of src/src/bin.rs.                               *)
(*                                                                         *)
(* The state is what one machine holds between CLI invocations: the        *)
(* platform the binary runs on, the files under the extensions home and    *)
(* the persisted registry file.  Every operation of ExtensionManager is an *)
(* operator that maps (platform, filesystem, registry file, inputs) to the *)
(* state it leaves and the Result it returns; an action applies it.        *)
(* Paths are sequences of components below extensions_home.  main routes   *)
(* an argument vector to the Invoker (run_extension).                      *)
(***************************************************************************)
EXTENDS Integers, Sequences, FiniteSets, TLC

VARIABLES
    platform,   \* PlatformInfo: [os, arch]
    fs,         \* files under extensions_home
    cfgFile,    \* <extensions_home>/config.json: the mapping it stores
    content,    \* the text of config.json, followed where the codec is checked
    env_args,   \* std::env::args() of the invocation that main routes
    procs,      \* CLI processes that run at the same time: where each one is
    broker,     \* `broker ruby start`: the command, its child and the PID file
    last        \* the last operation: what was called and what it returned

vars == <<platform, fs, cfgFile, content, env_args, procs, broker, last>>

\* one process at a time: no process is between its load_config and its
\* save_config when another one starts
NoProcs == <<>>

\* no `broker ruby start` is running
NoBroker == <<>>

(***************************************************************************)
(* Bounds of the model                                                     *)
(***************************************************************************)
\* number of explicit versions a caller may ask for, per family
MaxVersions == 1
\* the disk refuses at one of the first MaxFaultAt steps of a loop
MaxFaultAt == 1
\* number of arguments after the program name in an argument vector
MaxArgs == 4

(***************************************************************************)
(* PlatformInfo                                                            *)
(***************************************************************************)
OSes == {"darwin", "windows", "linux", "freebsd"}
Arches == {"aarch64", "x86_64", "riscv64"}
Platforms == [os : OSes, arch : Arches]

supported_platforms ==
    << <<"darwin", "aarch64">>, <<"darwin", "x86_64">>,
       <<"windows", "aarch64">>, <<"windows", "x86_64">>,
       <<"linux", "aarch64">>, <<"linux", "x86_64">> >>

\* is_supported that looks at the operating system only
is_supported_os_only(p) ==
    \E i \in DOMAIN supported_platforms : supported_platforms[i][1] = p.os

is_supported(p) ==
    \E i \in DOMAIN supported_platforms : supported_platforms[i] = <<p.os, p.arch>>

\* the target table of get_pactflow_ai_url
ai_latest_target(p) ==
    CASE p.os = "darwin" /\ p.arch = "aarch64" -> "aarch64-apple-darwin"
      [] p.os = "darwin" /\ p.arch = "x86_64" -> "x86_64-apple-darwin"
      [] p.os = "windows" /\ p.arch = "aarch64" -> "aarch64-pc-windows-msvc"
      [] p.os = "windows" /\ p.arch = "x86_64" -> "x86_64-pc-windows-msvc"
      [] p.os = "linux" /\ p.arch = "aarch64" -> "aarch64-unknown-linux-gnu"
      [] p.os = "linux" /\ p.arch = "x86_64" -> "x86_64-unknown-linux-gnu"
      [] OTHER -> "x86_64-unknown-linux-gnu"

get_pactflow_ai_url(p) ==
    <<"https://download.pactflow.io/ai/dist", ai_latest_target(p), "latest">>

\* the target table of get_pactflow_ai_download_url
ai_download_target(p) ==
    CASE p.os = "darwin" /\ p.arch = "aarch64" -> "aarch64-apple-darwin"
      [] p.os = "darwin" /\ p.arch = "x86_64" -> "x86_64-apple-darwin"
      [] p.os = "windows" /\ p.arch = "aarch64" -> "aarch64-pc-windows-msvc"
      [] p.os = "windows" /\ p.arch = "x86_64" -> "x86_64-pc-windows-msvc"
      [] p.os = "linux" /\ p.arch = "aarch64" -> "aarch64-unknown-linux-gnu"
      [] p.os = "linux" /\ p.arch = "x86_64" -> "x86_64-unknown-linux-gnu"
      [] OTHER -> "x86_64-unknown-linux-gnu"

\* get_pactflow_ai_download_url that names the latest release, as
\* get_pactflow_ai_url does, whatever the version
get_pactflow_ai_download_url_latest(p, version) ==
    <<"https://download.pactflow.io/ai/dist", ai_download_target(p),
      <<"l", "a", "t", "e", "s", "t">>, "pactflow-ai">>

get_pactflow_ai_download_url(p, version) ==
    <<"https://download.pactflow.io/ai/dist", ai_download_target(p), version,
      "pactflow-ai">>

get_ruby_standalone_target(p) ==
    CASE p.os = "darwin" /\ p.arch = "aarch64" -> "osx-arm64"
      [] p.os = "darwin" /\ p.arch = "x86_64" -> "osx-x86_64"
      [] p.os = "windows" /\ p.arch = "aarch64" -> "windows-x86_64"
      [] p.os = "windows" /\ p.arch = "x86_64" -> "windows-x86_64"
      [] p.os = "linux" /\ p.arch = "aarch64" -> "linux-arm64"
      [] p.os = "linux" /\ p.arch = "x86_64" -> "linux-x86_64"
      [] OTHER -> "linux-x86_64"

get_executable_extension(p) == IF p.os = "windows" THEN ".exe" ELSE ""

get_archive_extension(p) == IF p.os = "windows" THEN "zip" ELSE "tar.gz"

\* cfg(unix) that holds on linux only
cfg_unix_linux_only(p) == p.os = "linux"

\* #[cfg(unix)] / #[cfg(windows)]: the build the platform runs
cfg_unix(p) == p.os # "windows"

(***************************************************************************)
(* Strings that the code scans are sequences of one-character strings      *)
(***************************************************************************)
Whitespace == {" ", "\n", "\t"}

RECURSIVE trim_start(_)
trim_start(s) ==
    IF s # <<>> /\ Head(s) \in Whitespace THEN trim_start(Tail(s)) ELSE s

RECURSIVE trim_end(_)
trim_end(s) ==
    IF s # <<>> /\ s[Len(s)] \in Whitespace
    THEN trim_end(SubSeq(s, 1, Len(s) - 1))
    ELSE s

trim(s) == trim_end(trim_start(s))

RECURSIVE trim_start_matches(_, _)
trim_start_matches(s, c) ==
    IF s # <<>> /\ Head(s) = c THEN trim_start_matches(Tail(s), c) ELSE s

(***************************************************************************)
(* The files under extensions_home                                         *)
(*   fs.rubyDir  <home>/pact-legacy exists (the extraction directory)      *)
(*   fs.srcs     the tool binaries present in <home>/pact-legacy/bin       *)
(*   fs.alias    what is at <home>/bin/<target><ext>: nothing, a regular   *)
(*               file, or a symlink to the tool's source binary            *)
(*   fs.aiBin    <home>/bin/pactflow-ai<ext>                               *)
(***************************************************************************)
legacy_mappings ==
    << <<"pact-broker", "pact-broker-legacy">>,
       <<"pactflow", "pactflow-legacy">>,
       <<"pact-message", "message-legacy">>,
       <<"pact-mock-service", "mock-legacy">>,
       <<"pact-provider-verifier", "verifier-legacy">>,
       <<"pact-stub-service", "stub-legacy">> >>

Sources == {legacy_mappings[i][1] : i \in DOMAIN legacy_mappings}
Targets == {legacy_mappings[i][2] : i \in DOMAIN legacy_mappings}
SourceOf(t) ==
    legacy_mappings[CHOOSE i \in DOMAIN legacy_mappings : legacy_mappings[i][2] = t][1]

NoAiBin == [present |-> FALSE, content |-> "none", exec |-> FALSE]

EmptyFs ==
    [rubyDir |-> FALSE, srcs |-> {}, alias |-> [t \in Targets |-> "none"],
     aiBin |-> NoAiBin]

bin_path(p, name) == <<"bin", name \o get_executable_extension(p)>>
ruby_dir == <<"pact-legacy">>
source_path(p, s) == <<"pact-legacy", "bin", s \o get_executable_extension(p)>>

\* Path::exists of a source binary
SourceExists(f, s) == f.rubyDir /\ s \in f.srcs

\* Path::exists follows symlinks: a symlink exists when its target does.
\* extensions_home is an absolute path (home_dir joined with .pact/extensions),
\* so the target of an alias symlink is the source binary itself
AliasExists(f, t) ==
    \/ f.alias[t] = "file"
    \/ f.alias[t] = "link" /\ SourceExists(f, SourceOf(t))

Exists(p, f, path) ==
    IF path = ruby_dir THEN f.rubyDir
    ELSE IF path = bin_path(p, "pactflow-ai") THEN f.aiBin.present
    ELSE IF \E t \in Targets : path = bin_path(p, t)
         THEN AliasExists(f, CHOOSE t \in Targets : path = bin_path(p, t))
    ELSE IF \E s \in Sources : path = source_path(p, s)
         THEN SourceExists(f, CHOOSE s \in Sources : path = source_path(p, s))
    ELSE FALSE

\* fs::remove_file: unlinks a file or a symlink (never its target); fails on
\* a directory and on a path that holds nothing
remove_file(p, f, path) ==
    IF path = bin_path(p, "pactflow-ai") /\ f.aiBin.present
    THEN [ok |-> TRUE, fs |-> [f EXCEPT !.aiBin = NoAiBin]]
    ELSE IF \E t \in Targets : path = bin_path(p, t) /\ f.alias[t] # "none"
    THEN LET tgt == CHOOSE t \in Targets : path = bin_path(p, t)
         IN [ok |-> TRUE, fs |-> [f EXCEPT !.alias[tgt] = "none"]]
    ELSE IF \E s \in Sources : path = source_path(p, s) /\ SourceExists(f, s)
    THEN LET src == CHOOSE s \in Sources : path = source_path(p, s)
         IN [ok |-> TRUE, fs |-> [f EXCEPT !.srcs = @ \ {src}]]
    ELSE [ok |-> FALSE, fs |-> f]

\* fs::remove_dir_all of the extraction directory
remove_dir_all(p, f, path) ==
    IF path = ruby_dir /\ f.rubyDir
    THEN [ok |-> TRUE, fs |-> [f EXCEPT !.rubyDir = FALSE, !.srcs = {}]]
    ELSE [ok |-> FALSE, fs |-> f]

(***************************************************************************)
(* ExtensionConfig and the registry file                                   *)
(***************************************************************************)
ExtensionConfig(name, version, binary_path, extension_type, installed) ==
    [name |-> name, version |-> version, binary_path |-> binary_path,
     extension_type |-> extension_type, installed |-> installed]

EmptyMap == [n \in {} |-> TRUE]

\* insert that keeps the record a name already has
insert_if_absent(config, name, rec) ==
    [n \in DOMAIN config \cup {name} |-> IF n \in DOMAIN config THEN config[n] ELSE rec]

insert(config, name, rec) ==
    [n \in DOMAIN config \cup {name} |-> IF n = name THEN rec ELSE config[n]]

remove(config, name) ==
    [n \in DOMAIN config \ {name} |-> config[n]]

\* the registry file: missing, unparseable ("corrupt") or a stored mapping
MissingFile == [state |-> "missing", map |-> EmptyMap]
CorruptFile == [state |-> "corrupt", map |-> EmptyMap]
StoredFile(config) == [state |-> "ok", map |-> config]

\* the text of a registry file is followed only by the codec (to_string_pretty
\* and from_str below); elsewhere the file is its mapping and no text is kept
NoContent == <<>>

load_config(cf) == IF cf.state = "ok" THEN cf.map ELSE EmptyMap

\* save_config that writes only over a registry file that parses
save_config_parsed_only(cf, config, wr) ==
    CASE wr = "done" /\ cf.state = "ok" -> [ok |-> TRUE, cf |-> StoredFile(config)]
      [] wr = "done" -> [ok |-> TRUE, cf |-> cf]
      [] wr = "open" -> [ok |-> FALSE, cf |-> cf]
      [] OTHER -> [ok |-> FALSE, cf |-> CorruptFile]

\* save_config that keeps the records of the file that the mapping lacks
save_config_merge(cf, config, wr) ==
    CASE wr = "done" ->
           [ok |-> TRUE,
            cf |-> StoredFile([n \in DOMAIN load_config(cf) \cup DOMAIN config |->
                                 IF n \in DOMAIN config THEN config[n]
                                 ELSE load_config(cf)[n]])]
      [] wr = "open" -> [ok |-> FALSE, cf |-> cf]
      [] OTHER -> [ok |-> FALSE, cf |-> CorruptFile]

\* fs::write: open with truncation, then write.  wr is how far it gets:
\* "done", "open" (the open fails, the file is as before), "write" (the file
\* is left truncated or partly written)
save_config(cf, config, wr) ==
    CASE wr = "done" -> [ok |-> TRUE, cf |-> StoredFile(config)]
      [] wr = "open" -> [ok |-> FALSE, cf |-> cf]
      [] OTHER -> [ok |-> FALSE, cf |-> CorruptFile]

builtin_extensions ==
    << <<"pactflow-ai", "PactflowAi">>,
       <<"pact-broker-legacy", "PactRubyStandalone">>,
       <<"pactflow-legacy", "PactRubyStandalone">>,
       <<"message-legacy", "PactRubyStandalone">>,
       <<"mock-legacy", "PactRubyStandalone">>,
       <<"verifier-legacy", "PactRubyStandalone">>,
       <<"stub-legacy", "PactRubyStandalone">> >>

BuiltinNames == {builtin_extensions[i][1] : i \in DOMAIN builtin_extensions}
BuiltinType(n) ==
    builtin_extensions[CHOOSE i \in DOMAIN builtin_extensions :
                           builtin_extensions[i][1] = n][2]

\* list_extensions with the installed flag of a persisted record taken from
\* the disk
list_extensions_disk_check(p, f, cf) ==
    LET config == load_config(cf)
    IN [n \in DOMAIN config \cup BuiltinNames |->
          IF n \in DOMAIN config
          THEN [config[n] EXCEPT !.installed = Exists(p, f, config[n].binary_path)]
          ELSE ExtensionConfig(n, <<"l", "a", "t", "e", "s", "t">>, bin_path(p, n),
                               BuiltinType(n), Exists(p, f, bin_path(p, n)))]

list_extensions(p, f, cf) ==
    LET config == load_config(cf)
    IN [n \in DOMAIN config \cup BuiltinNames |->
          IF n \in DOMAIN config THEN config[n]
          ELSE ExtensionConfig(n, <<"l", "a", "t", "e", "s", "t">>, bin_path(p, n),
                               BuiltinType(n), Exists(p, f, bin_path(p, n)))]

(***************************************************************************)
(* The registry codec: serde_json::to_string_pretty and from_str           *)
(*                                                                         *)
(* A text is a sequence of units: the punctuation of JSON, the line break  *)
(* that the pretty printer puts between members, the literals true and     *)
(* false, and the characters of strings.  A string is a sequence of        *)
(* characters; a word of the format (a field name, a variant name) is one  *)
(* character.                                                              *)
(***************************************************************************)
QUOTE == "QUOTE"
BSLASH == "BACKSLASH"
NL == "NEWLINE"

ExtensionTypes == {"PactflowAi", "PactRubyStandalone", "External"}

\* the fields of ExtensionConfig in the order of the declaration
ConfigFields ==
    << <<"name", "str">>, <<"version", "str">>, <<"binary_path", "str">>,
       <<"extension_type", "type">>, <<"installed", "bool">> >>

\* a string escaped without its backslashes and line breaks
RECURSIVE escape_quote_only(_)
escape_quote_only(str) ==
    IF str = <<>> THEN <<>>
    ELSE (IF Head(str) = QUOTE THEN <<BSLASH, QUOTE>> ELSE <<Head(str)>>)
         \o escape_quote_only(Tail(str))

\* the characters of a string as JSON writes them between the quotes
RECURSIVE escape(_)
escape(str) ==
    IF str = <<>> THEN <<>>
    ELSE (CASE Head(str) = QUOTE -> <<BSLASH, QUOTE>>
            [] Head(str) = BSLASH -> <<BSLASH, BSLASH>>
            [] Head(str) = NL -> <<BSLASH, "n">>
            [] OTHER -> <<Head(str)>>)
         \o escape(Tail(str))

write_str(str) == <<QUOTE>> \o escape(str) \o <<QUOTE>>

write_value(kind, v) ==
    CASE kind = "str" -> write_str(v)
      [] kind = "type" -> write_str(<<v>>)
      [] OTHER -> <<IF v THEN "true" ELSE "false">>

field_value(rec, i) ==
    CASE i = 1 -> rec.name
      [] i = 2 -> rec.version
      [] i = 3 -> rec.binary_path
      [] i = 4 -> rec.extension_type
      [] OTHER -> rec.installed

RECURSIVE write_fields(_, _)
write_fields(rec, i) ==
    write_str(<<ConfigFields[i][1]>>) \o <<":">>
    \o write_value(ConfigFields[i][2], field_value(rec, i))
    \o (IF i = Len(ConfigFields) THEN <<NL, "}">>
        ELSE <<",", NL>> \o write_fields(rec, i + 1))

write_record(rec) == <<"{", NL>> \o write_fields(rec, 1)

\* the entries in the order in which the HashMap yields its keys
RECURSIVE write_entries(_, _, _)
write_entries(config, order, i) ==
    write_str(order[i]) \o <<":">> \o write_record(config[order[i]])
    \o (IF i = Len(order) THEN <<NL, "}">>
        ELSE <<",", NL>> \o write_entries(config, order, i + 1))

to_string_pretty(config, order) ==
    IF order = <<>> THEN <<"{", "}">>
    ELSE <<"{", NL>> \o write_entries(config, order, 1)

\* the orders in which a HashMap may yield its keys
KeyOrders(keys) ==
    {o \in [1..Cardinality(keys) -> keys] : \A i, j \in DOMAIN o : o[i] = o[j] => i = j}

\* the parser.  First the text is cut into tokens: a string (its characters
\* unescaped), or one unit of punctuation or a literal.  A line break ends a
\* line: it separates tokens, and a string that its line does not close is
\* a bad token (a line break in a string must be escaped)
Token(kind, val) == [kind |-> kind, val |-> val]
Unit(u) == Token("unit", <<u>>)
ParseFail == [ok |-> FALSE, val |-> <<>>, next |-> 0]
Parsed(v, next) == [ok |-> TRUE, val |-> v, next |-> next]
At(text, i, unit) == i <= Len(text) /\ text[i] = unit

\* the characters of a string up to its closing quote
RECURSIVE parse_chars(_, _, _)
parse_chars(text, i, acc) ==
    IF i > Len(text) THEN ParseFail
    ELSE IF text[i] = QUOTE THEN Parsed(acc, i + 1)
    ELSE IF text[i] = BSLASH
         THEN CASE At(text, i + 1, QUOTE) -> parse_chars(text, i + 2, Append(acc, QUOTE))
                [] At(text, i + 1, BSLASH) -> parse_chars(text, i + 2, Append(acc, BSLASH))
                [] At(text, i + 1, "n") -> parse_chars(text, i + 2, Append(acc, NL))
                [] OTHER -> ParseFail
    ELSE parse_chars(text, i + 1, Append(acc, text[i]))

\* the tokens of a line, from its i-th unit on
RECURSIVE line_tokens(_, _)
line_tokens(line, i) ==
    IF i > Len(line) THEN <<>>
    ELSE IF line[i] = QUOTE
         THEN LET str == parse_chars(line, i + 1, <<>>)
              IN IF str.ok
                 THEN <<Token("str", str.val)>> \o line_tokens(line, str.next)
                 ELSE <<Token("bad", <<>>)>>
    ELSE <<Unit(line[i])>> \o line_tokens(line, i + 1)

\* where the line that starts at from ends: at the next line break or at
\* the end of the text
line_end(text, from) ==
    CHOOSE p \in from..(Len(text) + 1) :
        /\ p = Len(text) + 1 \/ text[p] = NL
        /\ \A q \in from..(p - 1) : text[q] # NL

RECURSIVE tokens(_, _)
tokens(text, from) ==
    IF from > Len(text) THEN <<>>
    ELSE line_tokens(SubSeq(text, from, line_end(text, from) - 1), 1)
         \o tokens(text, line_end(text, from) + 1)

\* then the tokens are matched with the shape of a map of ExtensionConfig: a
\* record takes RecordLen tokens, an entry of the map EntryLen.  (The fields
\* are matched in the order in which to_string_pretty writes them: the texts
\* read here are written by it, whole or in part.)
RecordLen == 1 + 4 * Len(ConfigFields)
EntryLen == RecordLen + 3

is_value(tok, kind) ==
    CASE kind = "str" -> tok.kind = "str"
      [] kind = "type" ->
           tok.kind = "str" /\ Len(tok.val) = 1 /\ tok.val[1] \in ExtensionTypes
      [] OTHER -> tok \in {Unit("true"), Unit("false")}

\* the tokens from the p-th on are a record, braces included
is_record(tk, p) ==
    /\ tk[p] = Unit("{")
    /\ \A n \in DOMAIN ConfigFields :
         LET q == p + 1 + 4 * (n - 1)
         IN /\ tk[q] = Token("str", <<ConfigFields[n][1]>>)
            /\ tk[q + 1] = Unit(":")
            /\ is_value(tk[q + 2], ConfigFields[n][2])
            /\ tk[q + 3] = Unit(IF n = Len(ConfigFields) THEN "}" ELSE ",")

record_at(tk, p) ==
    ExtensionConfig(tk[p + 3].val, tk[p + 7].val, tk[p + 11].val,
                    tk[p + 15].val[1], tk[p + 19] = Unit("true"))

\* the e-th entry of the map starts at EntryAt(e); there are count entries
EntryAt(e) == 2 + EntryLen * (e - 1)

is_map(tk, count) ==
    /\ Len(tk) = 1 + EntryLen * count
    /\ tk[1] = Unit("{")
    /\ \A e \in 1..count :
         /\ tk[EntryAt(e)].kind = "str"
         /\ tk[EntryAt(e) + 1] = Unit(":")
         /\ is_record(tk, EntryAt(e) + 2)
         /\ tk[EntryAt(e) + EntryLen - 1] = Unit(IF e = count THEN "}" ELSE ",")

\* the entries up to the count-th: of two with one key the later stays
RECURSIVE map_of(_, _)
map_of(tk, count) ==
    IF count = 0 THEN EmptyMap
    ELSE insert(map_of(tk, count - 1),
                tk[EntryAt(count)].val, record_at(tk, EntryAt(count) + 2))

\* the tokens are one map, or the parse fails
entry_count(tk) == (Len(tk) - 1) \div EntryLen

from_tokens(tk) ==
    IF tk = <<Unit("{"), Unit("}")>> THEN Parsed(EmptyMap, Len(tk) + 1)
    ELSE IF Len(tk) > 1 /\ is_map(tk, entry_count(tk))
         THEN Parsed(map_of(tk, entry_count(tk)), Len(tk) + 1)
         ELSE ParseFail

\* serde_json::from_str
from_str(text) == from_tokens(tokens(text, 1))

\* load_config on the text: unwrap_or_default
load_content(text) == IF from_str(text).ok THEN from_str(text).val ELSE EmptyMap

(***************************************************************************)
(* What the network and the disk answer: the inputs of an install          *)
(***************************************************************************)
Digit(i) == CASE i = 1 -> "1" [] i = 2 -> "2" [] i = 3 -> "3" [] OTHER -> "9"

\* Option<&str>
None == [some |-> FALSE, v |-> <<>>]
Some(v) == [some |-> TRUE, v |-> v]

AiVersions == {<<Digit(i)>> : i \in 1..MaxVersions}
RubyVersions == {<<"v", Digit(i)>> : i \in 1..MaxVersions}

\* the tool binaries a release archive leaves in pact-legacy/bin (older and
\* newer bundle layouts omit tools); a release is immutable
BundleOf(version) ==
    CASE version = <<"v", "1">> -> {"pact-broker", "pactflow"}
      [] version = <<"v", "3">> -> {}
      [] OTHER -> Sources

is_success(status) == status >= 200 /\ status <= 299

Unsent == [sent |-> FALSE, status |-> 0]
DownloadResponses ==
    {Unsent, [sent |-> TRUE, status |-> 200], [sent |-> TRUE, status |-> 404]}

\* answers of https://download.pactflow.io/ai/dist/<target>/latest
AiLatestResponses ==
    { [sent |-> FALSE, status |-> 0, body |-> <<>>],
      [sent |-> TRUE, status |-> 200, body |-> <<"2", "\n">>],
      [sent |-> TRUE, status |-> 404, body |-> <<"N", "o">>],
      [sent |-> TRUE, status |-> 200, body |-> <<"\n">>] }

\* answers of https://api.github.com/repos/.../releases/latest: json says
\* whether the body parses, tag is release["tag_name"].as_str()
RubyLatestResponses ==
    { [sent |-> FALSE, status |-> 0, json |-> FALSE, tag |-> None],
      [sent |-> TRUE, status |-> 200, json |-> TRUE, tag |-> Some(<<"v", "2">>)],
      [sent |-> TRUE, status |-> 200, json |-> TRUE, tag |-> None],
      [sent |-> TRUE, status |-> 403, json |-> TRUE, tag |-> None],
      [sent |-> TRUE, status |-> 502, json |-> FALSE, tag |-> None],
      [sent |-> TRUE, status |-> 404, json |-> TRUE, tag |-> Some(<<"v", "1">>)] }

\* the step at which the disk refuses
AiIoFaults == {"none", "create", "write", "chmod", "save_open", "save_write"}
RubyIoFaults ==
    {"none", "create", "write", "extract", "alias_rm", "alias_ln",
     "save_open", "save_write", "rm_archive"}

Ok == <<"ok">>
IsOk(res) == res = Ok
OkVal(v) == [ok |-> TRUE, val |-> v, err |-> <<>>]
ErrVal(e) == [ok |-> FALSE, val |-> <<>>, err |-> e]

NoUrl == <<>>
Result(f, cf, res, reqs, url) ==
    [fs |-> f, cf |-> cf, res |-> res, reqs |-> reqs, url |-> url]

SaveStep(io) ==
    CASE io = "save_open" -> "open" [] io = "save_write" -> "write" [] OTHER -> "done"

(***************************************************************************)
(* Version Resolver                                                        *)
(***************************************************************************)
get_latest_ruby_standalone_version(resp) ==
    IF ~resp.sent THEN ErrVal(<<"reqwest: error sending request">>)
    ELSE IF ~resp.json THEN ErrVal(<<"reqwest: error decoding response body">>)
    ELSE IF ~resp.tag.some THEN ErrVal(<<"No tag_name found in release">>)
    ELSE OkVal(resp.tag.v)

get_latest_pactflow_ai_version(resp) ==
    IF ~resp.sent THEN ErrVal(<<"reqwest: error sending request">>)
    ELSE OkVal(trim(resp.body))

(***************************************************************************)
(* Artifact Installer: the single-binary family                            *)
(*   version  Option<&str>                                                 *)
(*   env      [latest, dl, io]: the answers of the two endpoints and the   *)
(*            step at which the disk refuses                               *)
(***************************************************************************)
install_pactflow_ai(p, f, cf, version, env) ==
    IF ~is_supported(p)
    THEN Result(f, cf, <<"Unsupported platform", p.os, p.arch>>, 0, NoUrl)
    ELSE
    LET latest == IF version.some THEN OkVal(version.v)
                  ELSE get_latest_pactflow_ai_version(env.latest)
        n1 == IF version.some THEN 0 ELSE 1
    IN
    IF ~latest.ok THEN Result(f, cf, latest.err, n1, NoUrl)
    ELSE
    LET v == latest.val
        url == get_pactflow_ai_download_url(p, v)
        binary_path == bin_path(p, "pactflow-ai")
    IN
    IF ~env.dl.sent
    THEN Result(f, cf, <<"reqwest: error sending request">>, n1 + 1, url)
    ELSE IF ~is_success(env.dl.status)
    THEN Result(f, cf, <<"Failed to download pactflow-ai: HTTP", env.dl.status>>,
                n1 + 1, url)
    ELSE IF env.io = "create"
    THEN Result(f, cf, <<"io: create">>, n1 + 1, url)
    ELSE IF env.io = "write"
    THEN Result([f EXCEPT !.aiBin = [present |-> TRUE, content |-> "partial",
                                     exec |-> @.exec]],
                cf, <<"io: write">>, n1 + 1, url)
    ELSE
    LET f1 == [f EXCEPT !.aiBin = [present |-> TRUE, content |-> "full",
                                   exec |-> @.exec]]
    IN
    IF cfg_unix(p) /\ env.io = "chmod"
    THEN Result(f1, cf, <<"io: set_permissions">>, n1 + 1, url)
    ELSE
    LET f2 == IF cfg_unix(p) THEN [f1 EXCEPT !.aiBin.exec = TRUE] ELSE f1
        config == insert(load_config(cf), "pactflow-ai",
                         ExtensionConfig("pactflow-ai", v, binary_path,
                                         "PactflowAi", TRUE))
        sv == save_config(cf, config, SaveStep(env.io))
    IN
    IF ~sv.ok THEN Result(f2, sv.cf, <<"io: save_config">>, n1 + 1, url)
    ELSE Result(f2, sv.cf, Ok, n1 + 1, url)

(***************************************************************************)
(* Legacy Bundle Bridge                                                    *)
(***************************************************************************)
\* alias_loop that creates the alias without removing what is at its path
RECURSIVE alias_loop_no_replace(_, _, _, _)
alias_loop_no_replace(p, f, i, env) ==
    IF i > Len(legacy_mappings) THEN [ok |-> TRUE, fs |-> f]
    ELSE
    LET source_name == legacy_mappings[i][1]
        target_name == legacy_mappings[i][2]
    IN
    IF ~Exists(p, f, source_path(p, source_name))
    THEN alias_loop_no_replace(p, f, i + 1, env)
    ELSE IF cfg_unix(p)
    THEN
        IF f.alias[target_name] # "none" \/ (env.io = "alias_ln" /\ env.at = i)
        THEN [ok |-> FALSE, fs |-> f]
        ELSE alias_loop_no_replace(p, [f EXCEPT !.alias[target_name] = "link"],
                                   i + 1, env)
    ELSE
        IF env.io = "alias_ln" /\ env.at = i THEN [ok |-> FALSE, fs |-> f]
        ELSE alias_loop_no_replace(p, [f EXCEPT !.alias[target_name] = "file"],
                                   i + 1, env)

\* the alias loop from mapping i on; env.io, env.at name the step and the
\* mapping at which the disk refuses
RECURSIVE alias_loop(_, _, _, _)
alias_loop(p, f, i, env) ==
    IF i > Len(legacy_mappings) THEN [ok |-> TRUE, fs |-> f]
    ELSE
    LET source_name == legacy_mappings[i][1]
        target_name == legacy_mappings[i][2]
    IN
    IF ~Exists(p, f, source_path(p, source_name)) THEN alias_loop(p, f, i + 1, env)
    ELSE IF cfg_unix(p)
    THEN
        LET stale == Exists(p, f, bin_path(p, target_name))
            rm == IF stale THEN remove_file(p, f, bin_path(p, target_name))
                  ELSE [ok |-> TRUE, fs |-> f]
        IN
        IF stale /\ ((env.io = "alias_rm" /\ env.at = i) \/ ~rm.ok)
        THEN [ok |-> FALSE, fs |-> f]
        \* symlink() fails when anything, a dangling link included, is at the path
        ELSE IF rm.fs.alias[target_name] # "none" \/ (env.io = "alias_ln" /\ env.at = i)
        THEN [ok |-> FALSE, fs |-> rm.fs]
        ELSE alias_loop(p, [rm.fs EXCEPT !.alias[target_name] = "link"], i + 1, env)
    ELSE
        \* fs::copy overwrites what is at the path
        IF env.io = "alias_ln" /\ env.at = i THEN [ok |-> FALSE, fs |-> f]
        ELSE alias_loop(p, [f EXCEPT !.alias[target_name] = "file"], i + 1, env)

\* insert_derived that records a tool only when its alias exists
RECURSIVE insert_derived_present_only(_, _, _, _, _)
insert_derived_present_only(p, f, config, version, i) ==
    IF i > Len(legacy_mappings) THEN config
    ELSE
    LET target_name == legacy_mappings[i][2]
        binary_path == bin_path(p, target_name)
    IN insert_derived_present_only(p, f,
           IF Exists(p, f, binary_path)
           THEN insert(config, target_name,
                       ExtensionConfig(target_name, version, binary_path,
                                       "PactRubyStandalone", TRUE))
           ELSE config,
           version, i + 1)

\* insert_derived that records the path of the source binary in the bundle
RECURSIVE insert_derived_source_path(_, _, _, _, _)
insert_derived_source_path(p, f, config, version, i) ==
    IF i > Len(legacy_mappings) THEN config
    ELSE
    LET source_name == legacy_mappings[i][1]
        target_name == legacy_mappings[i][2]
        binary_path == source_path(p, source_name)
    IN insert_derived_source_path(p, f,
           insert(config, target_name,
                  ExtensionConfig(target_name, version, binary_path,
                                  "PactRubyStandalone", Exists(p, f, binary_path))),
           version, i + 1)

\* insert_derived that records every derived name as installed
RECURSIVE insert_derived_installed(_, _, _, _, _)
insert_derived_installed(p, f, config, version, i) ==
    IF i > Len(legacy_mappings) THEN config
    ELSE
    LET target_name == legacy_mappings[i][2]
        binary_path == bin_path(p, target_name)
    IN insert_derived_installed(p, f,
           insert(config, target_name,
                  ExtensionConfig(target_name, version, binary_path,
                                  "PactRubyStandalone", TRUE)),
           version, i + 1)

RECURSIVE insert_derived(_, _, _, _, _)
insert_derived(p, f, config, version, i) ==
    IF i > Len(legacy_mappings) THEN config
    ELSE
    LET target_name == legacy_mappings[i][2]
        binary_path == bin_path(p, target_name)
    IN insert_derived(p, f,
           insert(config, target_name,
                  ExtensionConfig(target_name, version, binary_path,
                                  "PactRubyStandalone", Exists(p, f, binary_path))),
           version, i + 1)

create_legacy_symlinks_with_version(p, f, cf, version, env) ==
    LET al == alias_loop(p, f, 1, env)
    IN
    IF ~al.ok THEN [ok |-> FALSE, fs |-> al.fs, cf |-> cf, err |-> <<"io: alias">>]
    ELSE
    LET master == ExtensionConfig("pact-legacy", version, ruby_dir,
                                  "PactRubyStandalone", Exists(p, al.fs, ruby_dir))
        config == insert_derived(p, al.fs,
                                 insert(load_config(cf), "pact-legacy", master),
                                 version, 1)
        sv == save_config(cf, config, SaveStep(env.io))
    IN [ok |-> sv.ok, fs |-> al.fs, cf |-> sv.cf,
        err |-> IF sv.ok THEN <<>> ELSE <<"io: save_config">>]

(***************************************************************************)
(* Artifact Installer: the bundle family                                   *)
(*   env  [latest, dl, io, at, partial]                                    *)
(***************************************************************************)
\* tar -xzf ... --strip-components=1 / Expand-Archive -Force: the files of
\* the archive are laid over what the directory holds
extract_ruby_archive(p, f, version, env) ==
    LET f1 == [f EXCEPT !.rubyDir = TRUE]
    IN IF env.io = "extract"
       THEN [ok |-> FALSE, fs |-> [f1 EXCEPT !.srcs = @ \cup env.partial]]
       ELSE [ok |-> TRUE, fs |-> [f1 EXCEPT !.srcs = @ \cup BundleOf(version)]]

ruby_download_url(p, version) ==
    <<"https://github.com/pact-foundation/pact-standalone/releases/download",
      version,
      <<"pact", trim_start_matches(version, "v"), get_ruby_standalone_target(p),
        get_archive_extension(p)>> >>

install_ruby_legacy(p, f, cf, version, env) ==
    IF ~is_supported(p)
    THEN Result(f, cf, <<"Unsupported platform", p.os, p.arch>>, 0, NoUrl)
    ELSE
    LET latest == IF version.some THEN OkVal(version.v)
                  ELSE get_latest_ruby_standalone_version(env.latest)
        n1 == IF version.some THEN 0 ELSE 1
    IN
    IF ~latest.ok THEN Result(f, cf, latest.err, n1, NoUrl)
    ELSE
    LET v == latest.val
        url == ruby_download_url(p, v)
    IN
    IF ~env.dl.sent
    THEN Result(f, cf, <<"reqwest: error sending request">>, n1 + 1, url)
    ELSE IF ~is_success(env.dl.status)
    THEN Result(f, cf, <<"Failed to download pact-legacy: HTTP", env.dl.status>>,
                n1 + 1, url)
    ELSE IF env.io \in {"create", "write"}
    THEN Result(f, cf, <<"io: archive">>, n1 + 1, url)
    ELSE
    LET ex == extract_ruby_archive(p, f, v, env)
    IN
    IF ~ex.ok THEN Result(ex.fs, cf, <<"Failed to extract archive">>, n1 + 1, url)
    ELSE
    LET br == create_legacy_symlinks_with_version(p, ex.fs, cf, v, env)
    IN
    IF ~br.ok THEN Result(br.fs, br.cf, br.err, n1 + 1, url)
    ELSE IF env.io = "rm_archive"
    THEN Result(br.fs, br.cf, <<"io: remove_file">>, n1 + 1, url)
    ELSE Result(br.fs, br.cf, Ok, n1 + 1, url)

(***************************************************************************)
(* uninstall_extension                                                     *)
(*   env  [order, io, at, partial]: the order in which config.iter() yields *)
(*        the records, the step (and the removal) at which the disk        *)
(*        refuses, and what a failed remove_dir_all had already deleted    *)
(***************************************************************************)
TargetSeq == [i \in DOMAIN legacy_mappings |-> legacy_mappings[i][2]]
Reverse(q) == [i \in DOMAIN q |-> q[Len(q) + 1 - i]]

\* orders of iteration of the HashMap that the model draws from
Orders == {TargetSeq, Reverse(TargetSeq)}

UninstallIoFaults == {"none", "rm", "rmdir", "save_open", "save_write"}

ends_with_pact_legacy(path) == path # <<>> /\ path[Len(path)] = "pact-legacy"

legacy_tools(config, order) ==
    LET Keep(n) == /\ n \in DOMAIN config
                   /\ config[n].extension_type = "PactRubyStandalone"
                   /\ n # "pact-legacy"
    IN SelectSeq(order, Keep)

\* remove_tools that goes on when a removal fails
RECURSIVE remove_tools_ignore_errors(_, _, _, _, _, _)
remove_tools_ignore_errors(p, f, config, tools, i, env) ==
    IF i > Len(tools) THEN [ok |-> TRUE, fs |-> f, config |-> config]
    ELSE
    LET tool == tools[i]
        path == config[tool].binary_path
        rm == IF tool \in DOMAIN config /\ Exists(p, f, path)
              THEN IF env.io = "rm" /\ env.at = i
                   THEN [ok |-> FALSE, fs |-> f]
                   ELSE remove_file(p, f, path)
              ELSE [ok |-> TRUE, fs |-> f]
    IN remove_tools_ignore_errors(p, rm.fs, remove(config, tool), tools, i + 1, env)

\* remove_tools that deletes the aliases and keeps their records
RECURSIVE remove_tools_keep_records(_, _, _, _, _, _)
remove_tools_keep_records(p, f, config, tools, i, env) ==
    IF i > Len(tools) THEN [ok |-> TRUE, fs |-> f, config |-> config]
    ELSE
    LET tool == tools[i]
        path == config[tool].binary_path
        rm == IF tool \in DOMAIN config /\ Exists(p, f, path)
              THEN IF env.io = "rm" /\ env.at = i
                   THEN [ok |-> FALSE, fs |-> f]
                   ELSE remove_file(p, f, path)
              ELSE [ok |-> TRUE, fs |-> f]
    IN IF ~rm.ok THEN [ok |-> FALSE, fs |-> rm.fs, config |-> config]
       ELSE remove_tools_keep_records(p, rm.fs, config, tools, i + 1, env)

RECURSIVE remove_tools(_, _, _, _, _, _)
remove_tools(p, f, config, tools, i, env) ==
    IF i > Len(tools) THEN [ok |-> TRUE, fs |-> f, config |-> config]
    ELSE
    LET tool == tools[i]
        path == config[tool].binary_path
        rm == IF tool \in DOMAIN config /\ Exists(p, f, path)
              THEN IF env.io = "rm" /\ env.at = i
                   THEN [ok |-> FALSE, fs |-> f]
                   ELSE remove_file(p, f, path)
              ELSE [ok |-> TRUE, fs |-> f]
    IN IF ~rm.ok THEN [ok |-> FALSE, fs |-> rm.fs, config |-> config]
       ELSE remove_tools(p, rm.fs, remove(config, tool), tools, i + 1, env)

uninstall_extension(p, f, cf, extension_name, env) ==
    LET config == load_config(cf)
    IN
    IF extension_name = "pact-legacy"
    THEN
        LET rt == remove_tools(p, f, config, legacy_tools(config, env.order), 1, env)
        IN
        IF ~rt.ok THEN Result(rt.fs, cf, <<"io: remove_file">>, 0, NoUrl)
        ELSE
        LET rd == IF Exists(p, rt.fs, ruby_dir)
                  THEN IF env.io = "rmdir"
                       THEN [ok |-> FALSE,
                             fs |-> [rt.fs EXCEPT !.srcs = @ \ env.partial]]
                       ELSE remove_dir_all(p, rt.fs, ruby_dir)
                  ELSE [ok |-> TRUE, fs |-> rt.fs]
        IN
        IF ~rd.ok THEN Result(rd.fs, cf, <<"io: remove_dir_all">>, 0, NoUrl)
        ELSE
        LET sv == save_config(cf, remove(rt.config, "pact-legacy"), SaveStep(env.io))
        IN Result(rd.fs, sv.cf, IF sv.ok THEN Ok ELSE <<"io: save_config">>, 0, NoUrl)
    ELSE IF extension_name \in DOMAIN config
    THEN
        LET path == config[extension_name].binary_path
            rm == IF Exists(p, f, path)
                  THEN IF env.io = "rm" THEN [ok |-> FALSE, fs |-> f]
                       ELSE IF ends_with_pact_legacy(path)
                            THEN remove_dir_all(p, f, path)
                            ELSE remove_file(p, f, path)
                  ELSE [ok |-> TRUE, fs |-> f]
        IN
        IF ~rm.ok THEN Result(rm.fs, cf, <<"io: remove">>, 0, NoUrl)
        ELSE
        LET sv == save_config(cf, remove(config, extension_name), SaveStep(env.io))
        IN Result(rm.fs, sv.cf, IF sv.ok THEN Ok ELSE <<"io: save_config">>, 0, NoUrl)
    ELSE Result(f, cf, <<"Extension is not installed.", extension_name>>, 0, NoUrl)

(***************************************************************************)
(* run_extension_command: extension update <name>                          *)
(***************************************************************************)
update_extension(p, f, cf, ext_name, env) ==
    LET extensions == list_extensions(p, f, cf)
    IN
    IF ext_name \in DOMAIN extensions
    THEN IF extensions[ext_name].installed
         THEN CASE extensions[ext_name].extension_type = "PactflowAi" ->
                       install_pactflow_ai(p, f, cf, None, env)
                [] extensions[ext_name].extension_type = "PactRubyStandalone" ->
                       install_ruby_legacy(p, f, cf, None, env)
                [] OTHER -> Result(f, cf, Ok, 0, NoUrl)
         ELSE Result(f, cf, <<"Extension is not installed", ext_name>>, 0, NoUrl)
    ELSE Result(f, cf, <<"Extension not found", ext_name>>, 0, NoUrl)

(***************************************************************************)
(* Invoker: run_extension                                                  *)
(*   onPath  the binaries that the PATH of the process resolves            *)
(***************************************************************************)
\* Command::status() starts the program at the path: a file that exists and,
\* on unix, may be executed; a directory cannot be started
Launchable(p, f, path) ==
    /\ path # ruby_dir
    /\ Exists(p, f, path)
    /\ (path = bin_path(p, "pactflow-ai") /\ cfg_unix(p)) => f.aiBin.exec

\* run_extension looking the name up among the listed extensions (the
\* synthesized builtin entries included) instead of the registry
run_extension_listed(p, f, cf, extension_name, args, onPath) ==
    LET config == list_extensions(p, f, cf)
    IN
    IF extension_name \in DOMAIN config
    THEN IF ~config[extension_name].installed
         THEN <<"Extension is not installed", extension_name>>
         ELSE IF Launchable(p, f, config[extension_name].binary_path)
              THEN <<"spawned", config[extension_name].binary_path, args>>
              ELSE <<"io: spawn">>
    ELSE
        LET binary_name == "pact-" \o extension_name
        IN IF binary_name \in onPath
           THEN <<"spawned", <<binary_name>>, args>>
           ELSE <<"Extension not found", extension_name>>

\* run_extension without the test of the installed flag: a record that is
\* not installed falls through to the binary on the PATH
run_extension_path_fallback(p, f, cf, extension_name, args, onPath) ==
    LET config == load_config(cf)
        binary_name == "pact-" \o extension_name
    IN
    IF extension_name \in DOMAIN config /\ config[extension_name].installed
    THEN IF Launchable(p, f, config[extension_name].binary_path)
         THEN <<"spawned", config[extension_name].binary_path, args>>
         ELSE <<"io: spawn">>
    ELSE IF binary_name \in onPath
         THEN <<"spawned", <<binary_name>>, args>>
         ELSE <<"Extension not found", extension_name>>

run_extension(p, f, cf, extension_name, args, onPath) ==
    LET config == load_config(cf)
    IN
    IF extension_name \in DOMAIN config
    THEN IF ~config[extension_name].installed
         THEN <<"Extension is not installed", extension_name>>
         ELSE IF Launchable(p, f, config[extension_name].binary_path)
              THEN <<"spawned", config[extension_name].binary_path, args>>
              ELSE <<"io: spawn">>
    ELSE
        LET binary_name == "pact-" \o extension_name
        IN IF binary_name \in onPath
           THEN <<"spawned", <<binary_name>>, args>>
           ELSE <<"Extension not found", extension_name>>

run_external_extension(p, f, cf, extension_name, args, onPath) ==
    run_extension(p, f, cf, extension_name, args, onPath)

(***************************************************************************)
(* Command Router                                                          *)
(***************************************************************************)
\* the words an argument vector is made of
ArgTokens ==
    {"--enable-otel", "--otel-exporter", "extension", "pactflow", "ai"}

\* the words that may follow "pactflow"
PactflowTokens == {"ai", "legacy", "a", "publish-provider-contract"}

\* subcommands of the pactflow client command
get_known_pactflow_commands == {"publish-provider-contract"}

\* name.starts_with("pactflow-") and name.strip_prefix("pactflow-")
starts_with_pactflow(name) == \E t \in PactflowTokens : name = "pactflow-" \o t
strip_prefix_pactflow(name) == CHOOSE t \in PactflowTokens : name = "pactflow-" \o t

get_pactflow_extensions(p, f, cf) ==
    LET extensions == list_extensions(p, f, cf)
    IN {strip_prefix_pactflow(n) :
          n \in {m \in DOMAIN extensions :
                   extensions[m].installed /\ starts_with_pactflow(m)}}

is_pactflow_extension(p, f, cf, command) ==
    command \in get_pactflow_extensions(p, f, cf)

run_pactflow_extension(p, f, cf, extension_cmd, args, onPath) ==
    run_extension(p, f, cf, "pactflow-" \o extension_cmd, args, onPath)

\* build_cli: the global flags and options (one of each kind), the static
\* subcommands, and the subcommands of "extension"
GlobalFlags == {"--enable-otel"}
GlobalOptions == {"--otel-exporter"}
StaticCommands ==
    {"broker", "pactflow", "completions", "extension", "plugin", "mock",
     "verifier", "stub"}
ExtensionCommands == {"list", "install", "update", "uninstall"}

\* the first argument at or after i that is no global flag, option or option
\* value: its index, 0 when there is none, -1 when an option lacks its value
RECURSIVE next_positional(_, _)
next_positional(argv, i) ==
    IF i > Len(argv) THEN 0
    ELSE IF argv[i] \in GlobalFlags THEN next_positional(argv, i + 1)
    ELSE IF argv[i] \in GlobalOptions
    THEN IF i + 1 > Len(argv) \/ argv[i + 1] \in GlobalFlags \cup GlobalOptions
         THEN -1
         ELSE next_positional(argv, i + 2)
    ELSE i

Matches(kind, idx, token) == [kind |-> kind, idx |-> idx, token |-> token]

\* app.try_get_matches(): the subcommand the arguments select and, for an
\* external subcommand, the index of its token in argv
try_get_matches(argv) ==
    LET i1 == next_positional(argv, 2)
    IN
    IF i1 = -1 THEN Matches("error", 0, "")
    ELSE IF i1 = 0 THEN Matches("none", 0, "")
    ELSE IF argv[i1] \in {"extension", "pactflow"}
    THEN
        LET i2 == next_positional(argv, i1 + 1)
        IN
        IF i2 = -1 THEN Matches("error", 0, "")
        ELSE IF i2 = 0 THEN Matches(argv[i1], 0, "")
        ELSE IF argv[i1] = "extension" /\ argv[i2] \in ExtensionCommands
        THEN Matches("extension", i2, argv[i2])
        ELSE Matches(argv[i1] \o " external", i2, argv[i2])
    ELSE IF argv[i1] \in StaticCommands THEN Matches("static", i1, argv[i1])
    ELSE Matches("external", i1, argv[i1])

\* Iterator::skip(n), Iterator::skip_while(|arg| arg != x), Iterator::position
skip(q, n) == SubSeq(q, n + 1, Len(q))

RECURSIVE skip_while_ne(_, _)
skip_while_ne(q, x) ==
    IF q # <<>> /\ Head(q) # x THEN skip_while_ne(Tail(q), x) ELSE q

position(q, x) ==
    IF \E i \in DOMAIN q : q[i] = x
    THEN CHOOSE i \in DOMAIN q : q[i] = x /\ \A j \in 1..(i - 1) : q[j] # x
    ELSE 0

\* what main did with the arguments: whether it called the Invoker, the index
\* in argv of the token that the parser matched, the extension name and the
\* arguments it gave the Invoker, and how the call ended
Routed(idx, name, args, out) ==
    [routed |-> TRUE, idx |-> idx, name |-> name, args |-> args, out |-> out]
NotRouted(out) ==
    [routed |-> FALSE, idx |-> 0, name |-> "", args |-> <<>>, out |-> out]

\* main that asks the registry about a token under "pactflow" before it
\* looks at the subcommands of the pactflow client
main_extension_first(p, f, cf, argv, onPath) ==
    LET m == try_get_matches(argv)
    IN
    CASE m.kind = "external" ->
           LET args == skip(argv, 2)
           IN Routed(m.idx, m.token, args,
                     run_external_extension(p, f, cf, m.token, args, onPath))
      [] m.kind = "pactflow external" ->
           IF is_pactflow_extension(p, f, cf, m.token)
           THEN LET extension_args == skip(skip_while_ne(argv, m.token), 1)
                IN Routed(m.idx, "pactflow-" \o m.token, extension_args,
                          run_pactflow_extension(p, f, cf, m.token, extension_args,
                                                 onPath))
           ELSE NotRouted(<<"pactflow_client">>)
      [] m.kind = "extension external" ->
           LET pos == position(argv, "extension")
               args == IF pos # 0 THEN skip(argv, pos) ELSE argv
           IN IF args # <<>>
              THEN Routed(m.idx, args[1], Tail(args),
                          run_extension(p, f, cf, args[1], Tail(args), onPath))
              ELSE NotRouted(Ok)
      [] m.kind = "error" -> NotRouted(<<"clap error">>)
      [] m.kind = "pactflow" -> NotRouted(<<"pactflow_client">>)
      [] OTHER -> NotRouted(<<"static", m.kind>>)

main(p, f, cf, argv, onPath) ==
    LET m == try_get_matches(argv)
    IN
    CASE m.kind = "external" ->
           LET args == skip(argv, 2)
           IN Routed(m.idx, m.token, args,
                     run_external_extension(p, f, cf, m.token, args, onPath))
      [] m.kind = "pactflow external" ->
           IF m.token \notin get_known_pactflow_commands
              /\ is_pactflow_extension(p, f, cf, m.token)
           THEN LET extension_args == skip(skip_while_ne(argv, m.token), 1)
                IN Routed(m.idx, "pactflow-" \o m.token, extension_args,
                          run_pactflow_extension(p, f, cf, m.token, extension_args,
                                                 onPath))
           ELSE NotRouted(<<"pactflow_client">>)
      [] m.kind = "extension external" ->
           LET pos == position(argv, "extension")
               args == IF pos # 0 THEN skip(argv, pos) ELSE argv
           IN IF args # <<>>
              THEN Routed(m.idx, args[1], Tail(args),
                          run_extension(p, f, cf, args[1], Tail(args), onPath))
              ELSE NotRouted(Ok)
      [] m.kind = "error" -> NotRouted(<<"clap error">>)
      [] m.kind = "pactflow" -> NotRouted(<<"pactflow_client">>)
      [] OTHER -> NotRouted(<<"static", m.kind>>)

(***************************************************************************)
(* The exit status of a launched extension and the exit code of the CLI    *)
(***************************************************************************)
\* ExitStatus: the child exited with a code, or a signal ended it (no code)
Exited(c) == [exited |-> TRUE, code |-> c]
Signaled == [exited |-> FALSE, code |-> 0]

\* ExitStatus::success, ExitStatus::code().unwrap_or(1)
success(status) == status.exited /\ status.code = 0
code_unwrap_or_1(status) == IF status.exited THEN status.code ELSE 1

\* exit_code as u8
as_u8(n) == n % 256

\* std::process::exit(code): unix keeps the low 8 bits of the code, Windows
\* the whole code
process_exit(p, code) == IF cfg_unix(p) THEN code % 256 ELSE code

\* the command that the message of an Invoker error names
remediation(err) ==
    CASE err[1] = "Extension is not installed" ->
           <<"pact", "extension", "install", err[2]>>
      [] err[1] = "Extension not found" -> <<"pact", "extension", "list">>
      [] OTHER -> <<>>

\* how the process ends: its exit code, the error it prints on stderr (<<>>
\* when none) and whether it prints the top-level help
Exit(code, reported, help) == [code |-> code, reported |-> reported, help |-> help]
NoExit == Exit(0, <<>>, FALSE)

\* the end of main for an invocation that main has routed to the Invoker
\* with result r, the launched child ending with status
main_exit(p, argv, r, status) ==
    LET m == try_get_matches(argv)
        spawned == r.out[1] = "spawned"
    IN
    CASE m.kind = "external" ->
           IF spawned
           THEN IF success(status) THEN Exit(0, <<>>, FALSE)
                ELSE Exit(as_u8(code_unwrap_or_1(status)), <<>>, FALSE)
           ELSE Exit(1, <<>>, TRUE)
      [] m.kind = "pactflow external" ->
           IF spawned
           THEN IF success(status) THEN Exit(0, <<>>, FALSE)
                ELSE Exit(as_u8(code_unwrap_or_1(status)), <<>>, FALSE)
           ELSE Exit(1, r.out, FALSE)
      [] OTHER ->
           IF spawned
           THEN IF success(status) THEN Exit(0, <<>>, FALSE)
                ELSE Exit(process_exit(p, code_unwrap_or_1(status)), <<>>, FALSE)
           ELSE Exit(1, r.out, FALSE)

(***************************************************************************)
(* Every input of a call: what the claims quantify over                    *)
(***************************************************************************)
AiVersionArgs == {None} \cup {Some(v) : v \in AiVersions}
RubyVersionArgs == {None} \cup {Some(v) : v \in RubyVersions}

\* an input that the call never reads is held at one value
DiskReached(e) == e.io = "none" \/ (e.dl.sent /\ is_success(e.dl.status))

AiEnvsAll ==
    {e \in [latest : AiLatestResponses, dl : DownloadResponses, io : AiIoFaults,
            at : {0}, partial : {{}}] : DiskReached(e)}

AiEnvsLatest == {e \in AiEnvsAll : ~e.latest.sent => e.dl = Unsent}

AiEnvsExplicit ==
    {e \in AiEnvsAll : e.latest = [sent |-> FALSE, status |-> 0, body |-> <<>>]}

AiEnvs(version) == IF version.some THEN AiEnvsExplicit ELSE AiEnvsLatest

AliasFaults == {"alias_rm", "alias_ln"}
ExtractPartials == {{}, {"pact-broker"}}

RubyEnvsAll ==
    {e \in [latest : RubyLatestResponses, dl : DownloadResponses, io : RubyIoFaults,
            at : 0..Len(legacy_mappings), partial : ExtractPartials] :
        /\ DiskReached(e)
        /\ (e.at # 0) = (e.io \in AliasFaults)
        /\ e.partial # {} => e.io = "extract"}

RubyEnvsLatest ==
    {e \in RubyEnvsAll :
        ~get_latest_ruby_standalone_version(e.latest).ok => e.dl = Unsent}

RubyEnvsExplicit ==
    {e \in RubyEnvsAll :
        e.latest = [sent |-> FALSE, status |-> 0, json |-> FALSE, tag |-> None]}

RubyEnvs(version) == IF version.some THEN RubyEnvsExplicit ELSE RubyEnvsLatest

RmdirPartials == {{}, Sources}

UninstallEnvs ==
    {e \in [order : Orders, io : UninstallIoFaults, at : 0..Len(legacy_mappings),
            partial : RmdirPartials] :
        /\ (e.at # 0) = (e.io = "rm")
        /\ e.order # TargetSeq => e.io = "rm"
        /\ e.partial # {} => e.io = "rmdir"}

\* nothing refuses: the endpoint answers, the download succeeds, the disk obeys
Fair(e) == e.io = "none" /\ e.dl = [sent |-> TRUE, status |-> 200]

(***************************************************************************)
(* The inputs the actions draw                                             *)
(***************************************************************************)
MainPlatforms ==
    {[os |-> "linux", arch |-> "x86_64"], [os |-> "windows", arch |-> "x86_64"]}

\* the download answers, with success or not; the latest-version endpoint of
\* the bundle family answers 200 or 403
DrawnAiEnvs(version) ==
    {e \in AiEnvs(version) :
        /\ e.dl.sent
        /\ ~version.some => e.latest.sent /\ is_success(e.latest.status)
                            /\ e.latest.body # <<"\n">>
        /\ e.io \in {"none", "save_write"}}

DrawnRubyEnvs(version) ==
    {e \in RubyEnvs(version) :
        /\ ~version.some =>
              /\ e.latest.status \in {200, 403}
              /\ e.dl.sent \/ ~get_latest_ruby_standalone_version(e.latest).ok
        /\ version.some => e.dl.sent
        /\ e.io \in {"none", "extract", "alias_ln", "save_write", "rm_archive"}
        /\ e.at <= MaxFaultAt
        /\ e.partial = {}}

DrawnUninstallEnvs(name) ==
    {e \in UninstallEnvs :
        /\ e.io \in {"none", "rm", "rmdir", "save_write"}
        /\ name # "pact-legacy" => e.io = "none"
        /\ e.at <= MaxFaultAt
        /\ e.partial = {}}

DrawnUpdateEnvs == {e \in DrawnRubyEnvs(None) : e.io = "none" /\ e.latest.sent}

UninstallNames == {"pact-legacy", "pactflow-ai", "pactflow-legacy", "no-such"}

UpdateNames == {"pactflow-legacy"}

(***************************************************************************)
(* The state machine                                                       *)
(***************************************************************************)
\* last.again: whether the call repeats the successful call before it (the
\* same operation on the same name), and whether it left the registry file as
\* that call had left it
Call(op, name, r) ==
    /\ fs' = r.fs
    /\ cfgFile' = r.cf
    /\ last' = [op |-> op, name |-> name, res |-> r.res,
                again |-> IF last.op = op /\ last.name = name /\ IsOk(last.res)
                          THEN IF r.cf = cfgFile THEN "same" ELSE "changed"
                          ELSE "no"]
    /\ UNCHANGED <<platform, content, env_args, procs, broker>>

Start == [op |-> "start", name |-> "", res |-> Ok, again |-> "no"]

\* the lifecycle operations do not read the arguments: env_args is the bare
\* program name
NoArgs == <<"pact">>

Init ==
    /\ platform \in MainPlatforms
    /\ fs = EmptyFs
    /\ cfgFile = MissingFile
    /\ content = NoContent
    /\ procs = NoProcs
    /\ broker = NoBroker
    /\ env_args = NoArgs
    /\ last = Start

InstallPactflowAi ==
    \E version \in AiVersionArgs :
      \E env \in DrawnAiEnvs(version) :
        Call("install_pactflow_ai", "pactflow-ai",
             install_pactflow_ai(platform, fs, cfgFile, version, env))

InstallRubyLegacy ==
    \E version \in RubyVersionArgs :
      \E env \in DrawnRubyEnvs(version) :
        Call("install_ruby_legacy", "pact-legacy",
             install_ruby_legacy(platform, fs, cfgFile, version, env))

UninstallExtension ==
    \E name \in UninstallNames :
      \E env \in DrawnUninstallEnvs(name) :
        Call("uninstall_extension", name,
             uninstall_extension(platform, fs, cfgFile, name, env))

UpdateExtension ==
    \E name \in UpdateNames :
      \E env \in DrawnUpdateEnvs :
        Call("update", name, update_extension(platform, fs, cfgFile, name, env))

\* the registry file is lost outside the program
LoseRegistry ==
    /\ cfgFile.state = "ok"
    /\ cfgFile' = MissingFile
    /\ last' = [op |-> "lose_registry", name |-> "", res |-> Ok, again |-> "no"]
    /\ UNCHANGED <<platform, fs, content, env_args, procs, broker>>

\* `pact extension list`: last.res = <<"listed", what list_extensions
\* returned, the registry file before the call>>
ListExtensions ==
    /\ last' = [op |-> "list", name |-> "",
                res |-> <<"listed", list_extensions(platform, fs, cfgFile), cfgFile>>,
                again |-> "no"]
    /\ UNCHANGED <<platform, fs, cfgFile, content, env_args, procs, broker>>

Next ==
    \/ ListExtensions
    \/ InstallPactflowAi
    \/ InstallRubyLegacy
    \/ UninstallExtension
    \/ UpdateExtension
    \/ LoseRegistry

Spec == Init /\ [][Next]_vars

(***************************************************************************)
(* Installs on every platform that detect() may report                     *)
(***************************************************************************)
InitPlatform ==
    /\ platform \in Platforms
    /\ fs = EmptyFs
    /\ cfgFile = MissingFile
    /\ content = NoContent
    /\ procs = NoProcs
    /\ broker = NoBroker
    /\ env_args = NoArgs
    /\ last = Start

NextPlatform ==
    \/ InstallPactflowAi
    \/ InstallRubyLegacy

SpecPlatform == InitPlatform /\ [][NextPlatform]_vars

(***************************************************************************)
(* main: one invocation of the binary with an argument vector              *)
(***************************************************************************)
Occurs(q, x) == Cardinality({i \in DOMAIN q : q[i] = x})

\* argument vectors; a global flag or option is given at most once
Argvs ==
    {<<"pact">> \o q :
        q \in {r \in UNION {[1..n -> ArgTokens] : n \in 0..MaxArgs} :
                 \A g \in GlobalFlags \cup GlobalOptions : Occurs(r, g) <= 1}}

PathBins == {"pact-ai", "pact-pactflow-ai"}
PathSets == {{}} \cup {{b} : b \in PathBins}

\* the exit codes a child may end with: 8 bits on unix, 32 bits on Windows
ExitCodes(p) == IF cfg_unix(p) THEN {0, 1, 255} ELSE {0, 1, 255, 256}
ChildStatuses(p) ==
    {Exited(c) : c \in ExitCodes(p)} \cup (IF cfg_unix(p) THEN {Signaled} ELSE {})

\* last.res = <<"main", what main did, how the process ended>>
Main ==
    \E onPath \in PathSets :
      \E status \in ChildStatuses(platform) :
        LET r == main(platform, fs, cfgFile, env_args, onPath)
            launched == r.routed /\ r.out[1] = "spawned"
        IN
        /\ launched \/ status = Exited(0)
        /\ last' = [op |-> "main", name |-> "",
                    res |-> <<"main", r,
                              IF r.routed
                              THEN main_exit(platform, env_args, r, status)
                              ELSE NoExit,
                              IF launched THEN status ELSE Exited(0)>>,
                    again |-> "no"]
        /\ UNCHANGED <<platform, fs, cfgFile, content, env_args, procs, broker>>

InstallPactflowAiFair ==
    \E version \in AiVersionArgs :
      \E env \in {e \in DrawnAiEnvs(version) : Fair(e)} :
        Call("install_pactflow_ai", "pactflow-ai",
             install_pactflow_ai(platform, fs, cfgFile, version, env))

InitRouter ==
    /\ platform = [os |-> "linux", arch |-> "x86_64"]
    /\ fs = EmptyFs
    /\ cfgFile = MissingFile
    /\ content = NoContent
    /\ procs = NoProcs
    /\ broker = NoBroker
    /\ env_args \in Argvs
    /\ last = Start

NextRouter ==
    \/ Main
    \/ InstallPactflowAiFair
    \/ LoseRegistry

SpecRouter == InitRouter /\ [][NextRouter]_vars

(***************************************************************************)
(* The Invoker: invocations that name an extension, on each routing path   *)
(***************************************************************************)
InvokerNames == {"ai", "pactflow-ai", "mock-legacy", "pact-legacy"}

InvokerArgvs ==
    {<<"pact", n>> : n \in InvokerNames}
    \cup {<<"pact", "extension", n>> : n \in InvokerNames}
    \cup {<<"pact", "pactflow", t>> : t \in {"ai", "legacy"}}

InstallRubyLegacyFair ==
    \E version \in RubyVersionArgs :
      \E env \in {e \in DrawnRubyEnvs(version) :
                    Fair(e) /\ (~version.some => e.latest.status = 200)} :
        Call("install_ruby_legacy", "pact-legacy",
             install_ruby_legacy(platform, fs, cfgFile, version, env))

InitInvoker ==
    /\ platform \in MainPlatforms
    /\ fs = EmptyFs
    /\ cfgFile = MissingFile
    /\ content = NoContent
    /\ procs = NoProcs
    /\ broker = NoBroker
    /\ env_args \in InvokerArgvs
    /\ last = Start

NextInvoker ==
    \/ Main
    \/ InstallPactflowAiFair
    \/ InstallRubyLegacyFair
    \/ LoseRegistry

SpecInvoker == InitInvoker /\ [][NextInvoker]_vars

(***************************************************************************)
(* Properties                                                              *)
(***************************************************************************)
Registry == load_config(cfgFile)
MasterName == "pact-legacy"
DerivedOfTree(f) == {t \in Targets : SourceOf(t) \in f.srcs}

\* a bundle install that returns Ok on an empty registry and empty
\* directories, leaving 2 of the 6 mapped tool binaries in the extracted tree
C1_Case ==
    /\ fs = EmptyFs
    /\ load_config(cfgFile) = EmptyMap
    /\ last'.op = "install_ruby_legacy"
    /\ IsOk(last'.res)
    /\ Cardinality(fs'.srcs) = 2

\* C1 (as stated): after the bundle bridge has run on a tree holding 2 of the
\* 6 tool binaries, from an empty registry and empty bin directory, the
\* registry holds exactly 3 records: the master and the 2 derived names whose
\* source exists; the other 4 derived names are absent.
C1_TwoOfSixLeavesThreeRecords ==
    [][C1_Case =>
         DOMAIN load_config(cfgFile') = {MasterName} \cup DerivedOfTree(fs')]_vars

\* C1 (amended): in that case the registry holds exactly 7 records, the
\* master and all 6 derived names; a derived record has installed == true
\* exactly when its source binary is in the tree, the other 4 are present
\* with installed == false; the missing binaries are no error.
C1_TwoOfSixLeavesSevenRecords ==
    [][C1_Case =>
         LET reg == load_config(cfgFile')
         IN /\ DOMAIN reg = {MasterName} \cup Targets
            /\ \A t \in Targets : reg[t].installed = (t \in DerivedOfTree(fs'))
            /\ Cardinality({t \in Targets : ~reg[t].installed}) = 4]_vars

C1_Witness ==
    /\ last.op = "install_ruby_legacy"
    /\ IsOk(last.res)
    /\ Cardinality(fs.srcs) = 2
    /\ ~fs.aiBin.present
    /\ DOMAIN Registry = {MasterName} \cup Targets
    /\ {t \in Targets : Registry[t].installed} = DerivedOfTree(fs)

IsUnder(path, dir) ==
    Len(path) > Len(dir) /\ SubSeq(path, 1, Len(dir)) = dir

\* C2 (as stated): in every reachable registry state the binary_path of every
\* derived bundle-tool record is a path under the binary_path of the master
\* 'pact-legacy' record.
C2_DerivedPathUnderMaster ==
    \A t \in Targets :
        (t \in DOMAIN Registry /\ MasterName \in DOMAIN Registry) =>
            IsUnder(Registry[t].binary_path, Registry[MasterName].binary_path)

\* C2 (amended): in every reachable registry state the binary_path of a
\* derived bundle-tool record is the alias path <home>/bin/<name><ext> and the
\* binary_path of the master record is <home>/pact-legacy; the alias path is
\* not under the master's path, it is the source binary the alias stands for
\* that lies under it.
C2_DerivedPathIsAliasPath ==
    /\ MasterName \in DOMAIN Registry => Registry[MasterName].binary_path = ruby_dir
    /\ \A t \in Targets :
          t \in DOMAIN Registry =>
              /\ Registry[t].binary_path = bin_path(platform, t)
              /\ ~IsUnder(Registry[t].binary_path, ruby_dir)
              /\ IsUnder(source_path(platform, SourceOf(t)), ruby_dir)

C2_Witness ==
    /\ MasterName \in DOMAIN Registry
    /\ \E t \in Targets :
          /\ t \in DOMAIN Registry
          /\ Registry[t].installed
          /\ fs.alias[t] # "none"
          /\ Registry[t].binary_path = bin_path(platform, t)

\* C3: after uninstall_extension("pact-legacy") returns Ok, from any reachable
\* registry and filesystem state, no derived and no master record is in the
\* registry, no alias remains at any derived tool's path in the bin directory,
\* and list_extensions reports installed == false for the six derived names.
C3_UninstallMasterLeavesNothing ==
    (last.op = "uninstall_extension" /\ last.name = MasterName /\ IsOk(last.res)) =>
        /\ \A n \in {MasterName} \cup Targets : n \notin DOMAIN Registry
        /\ \A t \in Targets : fs.alias[t] = "none"
        /\ \A t \in Targets : ~list_extensions(platform, fs, cfgFile)[t].installed

Matrix == {"darwin", "windows", "linux"} \X {"aarch64", "x86_64"}

UnsupportedPlatform(p) == <<"Unsupported platform", p.os, p.arch>>

\* C4: is_supported is true for each pair of the six-pair matrix; on every
\* other pair install_pactflow_ai and install_ruby_legacy return the
\* unsupported-platform error naming the pair and issue no network request,
\* with and without an explicit version, whatever the network and the disk
\* would have answered.
C4_UnsupportedPlatformFailsBeforeNetwork ==
    /\ <<platform.os, platform.arch>> \in Matrix => is_supported(platform)
    /\ <<platform.os, platform.arch>> \notin Matrix =>
          /\ ~is_supported(platform)
          /\ \A version \in AiVersionArgs :
               \A env \in AiEnvs(version) :
                 LET r == install_pactflow_ai(platform, fs, cfgFile, version, env)
                 IN r.res = UnsupportedPlatform(platform) /\ r.reqs = 0
          /\ \A version \in RubyVersionArgs :
               \A env \in RubyEnvs(version) :
                 LET r == install_ruby_legacy(platform, fs, cfgFile, version, env)
                 IN r.res = UnsupportedPlatform(platform) /\ r.reqs = 0
          /\ last.op \in {"install_pactflow_ai", "install_ruby_legacy"} =>
                 last.res = UnsupportedPlatform(platform)
          /\ fs = EmptyFs /\ cfgFile = MissingFile

C4_Witness ==
    /\ <<platform.os, platform.arch>> \notin Matrix
    /\ last.op = "install_ruby_legacy"
    /\ last.res = UnsupportedPlatform(platform)

InstallOps == {"install_pactflow_ai", "install_ruby_legacy"}

\* C5: whenever install_pactflow_ai or install_ruby_legacy returns an error,
\* at whichever of the steps before the registry write it fails (platform
\* check, version resolution, download, file write, extraction, alias
\* creation, deletion of the temporary archive), the persisted registry is
\* identical to what it was before the call.
C5_FailedInstallLeavesRegistry ==
    [][(/\ last'.op \in InstallOps
        /\ ~IsOk(last'.res)
        /\ last'.res # <<"io: save_config">>) => cfgFile' = cfgFile]_vars

FamilyNames(op) ==
    IF op = "install_pactflow_ai" THEN {"pactflow-ai"} ELSE {MasterName} \cup Targets

Resolved(op, version, env) ==
    IF version.some THEN version.v
    ELSE IF op = "install_pactflow_ai"
         THEN get_latest_pactflow_ai_version(env.latest).val
         ELSE get_latest_ruby_standalone_version(env.latest).val

\* the version arguments of a family, and the answers with which nothing
\* refuses: the latest version resolves, the download succeeds, the disk obeys
VersionArgsOf(op) ==
    IF op = "install_pactflow_ai" THEN AiVersionArgs ELSE RubyVersionArgs

AiFairEnvs == {e \in AiEnvsAll : Fair(e)}
RubyFairEnvs == {e \in RubyEnvsAll : Fair(e)}

FairEnvs(op, version) ==
    IF op = "install_pactflow_ai"
    THEN {e \in AiFairEnvs :
            /\ e \in AiEnvs(version)
            /\ ~version.some => get_latest_pactflow_ai_version(e.latest).ok}
    ELSE {e \in RubyFairEnvs :
            /\ e \in RubyEnvs(version)
            /\ ~version.some => get_latest_ruby_standalone_version(e.latest).ok}

Install(op, f, cf, version, env) ==
    IF op = "install_pactflow_ai"
    THEN install_pactflow_ai(platform, f, cf, version, env)
    ELSE install_ruby_legacy(platform, f, cf, version, env)

\* C6: in every state that a successful install of a family has left, the
\* family has one record per name, and a second install of the family, when
\* nothing refuses, succeeds and again leaves one record per name, carrying the
\* version it installed; it leaves every other record alone and, when it
\* installs the version the first had installed, leaves the registry file
\* equal to what the first left.
C6_ReinstallReplacesRecord ==
    \A op \in InstallOps :
      (last.op = op /\ IsOk(last.res)) =>
        /\ \A n \in FamilyNames(op) : n \in DOMAIN Registry /\ Registry[n].name = n
        /\ \A v2 \in VersionArgsOf(op) :
             \A e2 \in FairEnvs(op, v2) :
               LET r2 == Install(op, fs, cfgFile, v2, e2)
                   reg2 == load_config(r2.cf)
                   first == Registry[CHOOSE n \in FamilyNames(op) : TRUE].version
               IN /\ IsOk(r2.res)
                  /\ DOMAIN reg2 = DOMAIN Registry
                  /\ \A n \in FamilyNames(op) :
                       /\ reg2[n].name = n
                       /\ reg2[n].version = Resolved(op, v2, e2)
                  /\ \A n \in DOMAIN reg2 \ FamilyNames(op) : reg2[n] = Registry[n]
                  /\ Resolved(op, v2, e2) = first => r2.cf = cfgFile

C6_Witness ==
    /\ last.op = "install_pactflow_ai"
    /\ IsOk(last.res)
    /\ last.again = "same"
    /\ "pactflow-ai" \in DOMAIN Registry
    /\ Registry["pactflow-ai"].version \in AiVersions

\* what may be at an alias path before the alias loop runs
PriorKinds(p) == IF cfg_unix(p) THEN {"none", "file", "link"} ELSE {"none", "file"}
AliasKind(p) == IF cfg_unix(p) THEN "link" ELSE "file"

BundleVersions ==
    RubyVersions \cup {r.tag.v : r \in {x \in RubyLatestResponses : x.tag.some}}

\* the reachable tree as it is and with something of kind k at every alias
\* path, the bundle directory still there or removed earlier
PriorTrees ==
    LET planted == {fs} \cup {[fs EXCEPT !.alias = [t \in Targets |-> k]] :
                                k \in PriorKinds(platform)}
    IN planted \cup {[f EXCEPT !.rubyDir = FALSE, !.srcs = {}] : f \in planted}

NoFault == [io |-> "none", at |-> 0, partial |-> {}]

\* C7: whatever is at a tool's alias path before (nothing, a regular file, a
\* symlink to an existing source, a symlink left dangling by the removal of
\* the bundle directory), the alias loop over an extracted tree succeeds and
\* leaves, for every mapping whose source binary is in the tree, an alias of
\* that source at the tool's path.
C7_AliasReplacesWhatIsThere ==
    \A f0 \in PriorTrees :
      \A version \in BundleVersions :
        LET tree == extract_ruby_archive(platform, f0, version, NoFault).fs
            al == alias_loop(platform, tree, 1, NoFault)
        IN /\ al.ok
           /\ al.fs.srcs = tree.srcs
           /\ \A u \in Targets :
                SourceExists(tree, SourceOf(u)) =>
                    /\ al.fs.alias[u] = AliasKind(platform)
                    /\ AliasExists(al.fs, u)

C7_Witness ==
    /\ last.op = "install_ruby_legacy"
    /\ IsOk(last.res)
    /\ last.again # "no"
    /\ \E t \in Targets : SourceExists(fs, SourceOf(t))
    /\ \A t \in Targets :
          SourceExists(fs, SourceOf(t)) =>
              fs.alias[t] = AliasKind(platform) /\ AliasExists(fs, t)

\* C8: for both families the latest-version resolution returns an error when
\* the request fails, when the status is not success and when the expected
\* field (the bare body, tag_name) is absent; an install with no explicit
\* version never builds a download URL from a non-success response.
C8_LatestResolutionFails ==
    /\ \A resp \in AiLatestResponses :
          (~resp.sent \/ ~is_success(resp.status) \/ trim(resp.body) = <<>>) =>
              ~get_latest_pactflow_ai_version(resp).ok
    /\ \A resp \in RubyLatestResponses :
          (~resp.sent \/ ~is_success(resp.status) \/ ~resp.tag.some) =>
              ~get_latest_ruby_standalone_version(resp).ok
    /\ \A env \in AiEnvsLatest :
          ~is_success(env.latest.status) =>
              install_pactflow_ai(platform, fs, cfgFile, None, env).url = NoUrl
    /\ \A env \in RubyEnvsLatest :
          ~is_success(env.latest.status) =>
              install_ruby_legacy(platform, fs, cfgFile, None, env).url = NoUrl

\* C9: for a token under 'pactflow' that is no known pactflow subcommand, the
\* router dispatches to the Invoker if and only if the Invoker's resolution
\* of 'pactflow-<token>' succeeds, in every registry and filesystem state, and
\* a dispatched invocation never ends in 'extension not found'.
C9_RouterAgreesWithInvoker ==
    \A token \in PactflowTokens \ get_known_pactflow_commands :
      \A onPath \in PathSets :
        LET dispatched == is_pactflow_extension(platform, fs, cfgFile, token)
            out == run_pactflow_extension(platform, fs, cfgFile, token, <<>>, onPath)
        IN /\ dispatched <=> out[1] = "spawned"
           /\ dispatched => out[1] # "Extension not found"

\* C10: for every argument vector that routes to an extension, the arguments
\* passed to the Invoker are exactly the arguments after the matched token,
\* in order and unaltered.
C10_ArgsAfterMatchedToken ==
    (last.op = "main" /\ last.res[2].routed) =>
        last.res[2].args = SubSeq(env_args, last.res[2].idx + 1, Len(env_args))

(***************************************************************************)
(* The registry file as text: what save_config writes and load_config      *)
(* reads, for registries of every shape                                    *)
(***************************************************************************)
\* strings with and without the characters that JSON escapes
CodecStrs ==
    {<<>>, <<"n">>, <<QUOTE>>, <<BSLASH, "n">>, <<NL, BSLASH>>, <<"a", QUOTE>>}
CodecKeys == {<<"n">>, <<BSLASH, "n">>, <<QUOTE>>}
OtherKey == <<"a">>

CodecRecords ==
    {ExtensionConfig(n, <<"1">>, n \o <<BSLASH>>, t, b) :
        n \in CodecStrs, t \in ExtensionTypes, b \in BOOLEAN}
OtherRecords ==
    {ExtensionConfig(OtherKey, <<"1">>, <<"a", NL>>, t, FALSE) : t \in ExtensionTypes}

\* registries of no, one and two records; a key need not be the record's name
CodecRegistries ==
    {EmptyMap}
    \cup {insert(EmptyMap, k, r) : k \in CodecKeys, r \in CodecRecords}
    \cup {insert(insert(EmptyMap, <<QUOTE>>, r), OtherKey, o) :
            r \in {x \in CodecRecords : x.name = <<NL, BSLASH>> /\ x.installed},
            o \in OtherRecords}

\* the state that save_config(R) leaves
InitCodec ==
    /\ platform = [os |-> "linux", arch |-> "x86_64"]
    /\ fs = EmptyFs
    /\ \E R \in CodecRegistries : \E order \in KeyOrders(DOMAIN R) :
         /\ cfgFile = save_config(MissingFile, R, "done").cf
         /\ content = to_string_pretty(R, order)
         /\ procs = NoProcs
         /\ broker = NoBroker
    /\ env_args = NoArgs
    /\ last = Start

\* save_config(&load_config()): the registry is read and written back, the
\* map yielding its keys in some order; last.res = <<"codec", the mapping
\* read before, the mapping read after>>
SaveLoaded ==
    LET config == load_content(content)
    IN \E order \in KeyOrders(DOMAIN config) :
         /\ content' = to_string_pretty(config, order)
         /\ cfgFile' = save_config(cfgFile, load_config(cfgFile), "done").cf
         /\ last' = [op |-> "save_loaded", name |-> "",
                     res |-> <<"codec", config, load_content(content')>>,
                     again |-> "no"]
         /\ UNCHANGED <<platform, fs, env_args, procs, broker>>

\* a save that fails after the truncation, with cut characters written
PartialSave ==
    LET config == load_content(content)
    IN \E order \in KeyOrders(DOMAIN config) :
       LET text == to_string_pretty(config, order)
       IN \E cut \in 0..(Len(text) - 1) :
            /\ content' = SubSeq(text, 1, cut)
            /\ cfgFile' = save_config(cfgFile, load_config(cfgFile), "write").cf
            /\ last' = [op |-> "partial_save", name |-> "",
                        res |-> <<"io: save_config">>, again |-> "no"]
            /\ UNCHANGED <<platform, fs, env_args, procs, broker>>

NextCodec == SaveLoaded \/ PartialSave

SpecCodec == InitCodec /\ [][NextCodec]_vars

(***************************************************************************)
(* The routed invocations and their exit codes                             *)
(***************************************************************************)
MainDone == last.op = "main" /\ last.res[2].routed
MainKind == try_get_matches(env_args).kind
MainOut == last.res[2].out
MainExit == last.res[3]
MainStatus == last.res[4]
MainSpawned == MainDone /\ MainOut[1] = "spawned"

\* C11: when a routed invocation launches a child, the CLI reports no
\* lifecycle error and exits with the child's exit code on each of the three
\* routing paths; a child ended by a signal makes the CLI exit nonzero.
C11_ExitCodeIsChildCode ==
    MainSpawned =>
        /\ MainExit.reported = <<>>
        /\ ~MainExit.help
        /\ MainStatus.exited => MainExit.code = MainStatus.code
        /\ ~MainStatus.exited => MainExit.code # 0

(***************************************************************************)
(* The Invoker's errors                                                    *)
(***************************************************************************)
\* every set of programs named pact-<name> that the PATH may hold
InvokerPaths == SUBSET {"pact-" \o n : n \in InvokerNames}

\* C12: run_extension for a name that has no registry record and no
\* launchable pact-<name> on the PATH returns the 'not found' error, whose
\* message points at 'pact extension list'; it never returns an exit status.
C12_NoRecordNoPathBinary ==
    \A n \in InvokerNames : \A onPath \in InvokerPaths :
        LET r == run_extension(platform, fs, cfgFile, n, <<>>, onPath)
        IN (n \notin DOMAIN load_config(cfgFile) /\ ("pact-" \o n) \notin onPath)
           => /\ r = <<"Extension not found", n>>
              /\ remediation(r) = <<"pact", "extension", "list">>

\* `pact extension pactflow-ai` was run when the binary of pactflow-ai is on
\* the disk but the registry holds no record of it
C12_Witness ==
    /\ MainDone
    /\ MainKind = "extension external"
    /\ MainOut = <<"Extension not found", "pactflow-ai">>
    /\ Exists(platform, fs, bin_path(platform, "pactflow-ai"))
    /\ "pactflow-ai" \notin DOMAIN load_config(cfgFile)

\* C13: run_extension for a record with installed == false returns the
\* not-installed error, whose message names the install command of that
\* name, and launches nothing: neither the record's binary_path nor a
\* pact-<name> on the PATH.
C13_NotInstalledRecordLaunchesNothing ==
    \A n \in DOMAIN load_config(cfgFile) : \A onPath \in InvokerPaths :
        LET r == run_extension(platform, fs, cfgFile, n, <<>>, onPath)
        IN ~load_config(cfgFile)[n].installed
           => /\ r = <<"Extension is not installed", n>>
              /\ remediation(r) = <<"pact", "extension", "install", n>>

\* `pact extension mock-legacy` was run with a record of mock-legacy that is
\* not installed
C13_Witness ==
    /\ MainDone
    /\ MainKind = "extension external"
    /\ MainOut = <<"Extension is not installed", "mock-legacy">>
    /\ MainExit.reported = MainOut
    /\ ~load_config(cfgFile)["mock-legacy"].installed

\* C14: a failure of the Invoker reaches the user with its message: when the
\* routed token names a record that is not installed, or a record whose
\* binary cannot be launched, the CLI reports that error, on every path.
C14_InvokerErrorIsReported ==
    (MainDone /\ MainOut[1] \in {"Extension is not installed", "io: spawn"})
        => MainExit.reported = MainOut /\ ~MainExit.help

(***************************************************************************)
(* The registry file                                                       *)
(***************************************************************************)
\* C15: a save of the registry either completes or fails leaving the file as
\* it was: with the write being a truncation followed by the write of the
\* new content, a save that fails in between leaves no empty or partly
\* written registry file.
C15_FailedSaveLeavesRegistry ==
    [][last'.res = <<"io: save_config">>
          => (cfgFile' = cfgFile /\ cfgFile'.state # "corrupt")]_vars

\* C16: reading the registry never fails: a registry file that is missing or
\* does not parse reads as the empty registry, and a first install on such a
\* state, when nothing refuses, succeeds and persists the records of what it
\* installed.
C16_UnreadableRegistryIsEmpty ==
    cfgFile.state # "ok" =>
        /\ load_config(cfgFile) = EmptyMap
        /\ \A op \in InstallOps : \A version \in VersionArgsOf(op) :
             \A env \in FairEnvs(op, version) :
               LET r == Install(op, fs, cfgFile, version, env)
                   reg == load_config(r.cf)
                   first == IF op = "install_pactflow_ai"
                            THEN "pactflow-ai" ELSE MasterName
               IN /\ IsOk(r.res)
                  /\ r.cf.state = "ok"
                  /\ DOMAIN reg = FamilyNames(op)
                  /\ reg[first].installed
                  /\ reg[first].version = Resolved(op, version, env)
                  /\ \A n \in DOMAIN reg :
                       reg[n].installed = Exists(platform, r.fs, reg[n].binary_path)

\* pactflow-ai was installed over a registry that could not be read: the
\* bundle of pact-legacy is on the disk and the registry does not know it
C16_Witness ==
    /\ last.op = "install_pactflow_ai"
    /\ IsOk(last.res)
    /\ DOMAIN Registry = {"pactflow-ai"}
    /\ Registry["pactflow-ai"].installed
    /\ Exists(platform, fs, ruby_dir)

\* C17: for every registry R, whatever its keys and the values of its fields
\* (each of the three extension types among them) and in whichever order the
\* map yields its keys, the text that save_config(R) writes is read back by
\* load_config as R; and save_config(load_config()) leaves what a following
\* load_config returns unchanged.
C17_SaveLoadRoundTrip ==
    /\ load_content(content) = load_config(cfgFile)
    /\ last.op = "save_loaded" => last.res[2] = last.res[3]

\* a registry of two records, one of type External with a name that needs
\* escapes, has been read and written back
C17_Witness ==
    /\ last.op = "save_loaded"
    /\ Cardinality(DOMAIN last.res[3]) = 2
    /\ \E k \in DOMAIN last.res[3] :
         /\ last.res[3][k].extension_type = "External"
         /\ last.res[3][k].name = <<NL, BSLASH>>
         /\ last.res[3][k].installed
         /\ k # last.res[3][k].name

\* C18: whatever the registry file and the disk hold, list_extensions returns
\* every record of load_config unchanged and, for each of the seven builtin
\* names that has no record, a record of version 'latest' whose installed
\* flag tells whether <extensions_home>/bin/<name><exe-ext> exists: every
\* builtin name is listed, no persisted record is overridden by what the
\* disk holds, and the registry file is as it was before the call.
C18_ListIsRegistryPlusBuiltins ==
    LET config == load_config(cfgFile)
        listed == list_extensions(platform, fs, cfgFile)
    IN /\ Cardinality(BuiltinNames) = 7
       /\ DOMAIN listed = DOMAIN config \cup BuiltinNames
       /\ \A n \in DOMAIN config : listed[n] = config[n]
       /\ \A n \in BuiltinNames \ DOMAIN config :
            /\ listed[n].name = n
            /\ listed[n].version = <<"l", "a", "t", "e", "s", "t">>
            /\ listed[n].binary_path = bin_path(platform, n)
            /\ listed[n].installed = Exists(platform, fs, bin_path(platform, n))
       /\ last.op = "list" => (last.res[2] = listed /\ last.res[3] = cfgFile)

\* the extensions were listed when a persisted record says installed and its
\* binary is gone, and a builtin name without a record has its alias on the
\* disk
C18_Witness ==
    /\ last.op = "list"
    /\ \E n \in DOMAIN Registry :
         /\ Registry[n].installed
         /\ ~Exists(platform, fs, Registry[n].binary_path)
         /\ last.res[2][n].installed
    /\ \E n \in BuiltinNames \ DOMAIN Registry : last.res[2][n].installed

\* C19: on a supported platform, with an empty registry and a download that
\* succeeds, install_pactflow_ai(Some(v)) returns Ok and leaves exactly one
\* record, named pactflow-ai, with version v and installed == true, whose
\* binary_path is a file that exists, holds the downloaded body and is
\* executable.
C19_InstallAiOnEmptyRegistry ==
    (is_supported(platform) /\ load_config(cfgFile) = EmptyMap) =>
        \A version \in {x \in AiVersionArgs : x.some} :
          \A env \in FairEnvs("install_pactflow_ai", version) :
            LET r == install_pactflow_ai(platform, fs, cfgFile, version, env)
                reg == load_config(r.cf)
            IN /\ IsOk(r.res)
               /\ DOMAIN reg = {"pactflow-ai"}
               /\ reg["pactflow-ai"].name = "pactflow-ai"
               /\ reg["pactflow-ai"].version = version.v
               /\ reg["pactflow-ai"].installed
               /\ reg["pactflow-ai"].binary_path = bin_path(platform, "pactflow-ai")
               /\ Exists(platform, r.fs, reg["pactflow-ai"].binary_path)
               /\ r.fs.aiBin.content = "full"
               /\ get_executable_extension(platform) = "" => r.fs.aiBin.exec
               /\ Launchable(platform, r.fs, reg["pactflow-ai"].binary_path)

\* pactflow-ai was installed on darwin with a version that was given, and
\* the registry holds its record alone
C19_Witness ==
    /\ platform.os = "darwin"
    /\ last.op = "install_pactflow_ai"
    /\ IsOk(last.res)
    /\ DOMAIN Registry = {"pactflow-ai"}
    /\ Registry["pactflow-ai"].version \in AiVersions
    /\ fs.aiBin = [present |-> TRUE, content |-> "full", exec |-> TRUE]

NoExtension == [some |-> FALSE, v |-> ""]

\* Arg::new("extension").value_parser([...]) of `extension install`
install_value_parser == {"pactflow-ai", "pact-legacy"}

\* whether the parser of `extension install` takes the arguments
install_accepts(extension) ==
    ~extension.some \/ extension.v \in install_value_parser

\* the result of a command that ran r and then rest
then_result(r, rest) ==
    [rest EXCEPT !.reqs = r.reqs + rest.reqs,
                 !.url = IF rest.url = NoUrl THEN r.url ELSE rest.url]

\* install_each whose installs all read the registry file as it was when the
\* command started
RECURSIVE install_each_stale_read(_, _, _, _, _, _, _, _)
install_each_stale_read(p, f, cf, types, i, version, envA, envR) ==
    IF i > Len(types) THEN Result(f, cf, Ok, 0, NoUrl)
    ELSE
    CHOOSE out \in
        {IF ~IsOk(r.res) \/ i = Len(types) THEN r
         ELSE CHOOSE both \in
                  {then_result(r, rest) :
                     rest \in {install_each_stale_read(p, r.fs, cf, types, i + 1,
                                                       version, envA, envR)}} : TRUE :
           r \in {CASE types[i] = "PactflowAi" ->
                           install_pactflow_ai(p, f, cf, version, envA)
                    [] types[i] = "PactRubyStandalone" ->
                           install_ruby_legacy(p, f, cf, version, envR)
                    [] OTHER -> Result(f, cf, Ok, 0, NoUrl)}} : TRUE

\* install_each that goes on to the next install after one has failed
RECURSIVE install_each_keep_going(_, _, _, _, _, _, _, _)
install_each_keep_going(p, f, cf, types, i, version, envA, envR) ==
    IF i > Len(types) THEN Result(f, cf, Ok, 0, NoUrl)
    ELSE
    CHOOSE out \in
        {CHOOSE both \in
             {[then_result(r, rest) EXCEPT
                  !.res = IF IsOk(r.res) THEN rest.res ELSE r.res] :
                rest \in {install_each_keep_going(p, r.fs, r.cf, types, i + 1,
                                                  version, envA, envR)}} : TRUE :
           r \in {CASE types[i] = "PactflowAi" ->
                           install_pactflow_ai(p, f, cf, version, envA)
                    [] types[i] = "PactRubyStandalone" ->
                           install_ruby_legacy(p, f, cf, version, envR)
                    [] OTHER -> Result(f, cf, Ok, 0, NoUrl)}} : TRUE

\* the installs of one command, one after another, each by the type of the
\* extension (an External extension is skipped); `?` ends the command at the
\* first error
RECURSIVE install_each(_, _, _, _, _, _, _, _)
install_each(p, f, cf, types, i, version, envA, envR) ==
    IF i > Len(types) THEN Result(f, cf, Ok, 0, NoUrl)
    ELSE
    CHOOSE out \in
        {IF ~IsOk(r.res) THEN r
         ELSE CHOOSE both \in
                  {then_result(r, rest) :
                     rest \in {install_each(p, r.fs, r.cf, types, i + 1, version,
                                            envA, envR)}} : TRUE :
           r \in {CASE types[i] = "PactflowAi" ->
                           install_pactflow_ai(p, f, cf, version, envA)
                    [] types[i] = "PactRubyStandalone" ->
                           install_ruby_legacy(p, f, cf, version, envR)
                    [] OTHER -> Result(f, cf, Ok, 0, NoUrl)}} : TRUE

\* `extension install [extension] [--all] [--version v]`: with --all both
\* families, the same --version given to both
install_command(p, f, cf, all, extension, version, envA, envR) ==
    IF ~install_accepts(extension)
    THEN Result(f, cf, <<"clap: invalid value", extension.v>>, 0, NoUrl)
    ELSE IF ~all /\ ~extension.some
    THEN Result(f, cf, <<"Please specify an extension name or use --all flag">>,
                0, NoUrl)
    ELSE IF ~all /\ extension.v \notin {"pactflow-ai", "pact-legacy"}
    THEN Result(f, cf, <<"Unknown extension", extension.v>>, 0, NoUrl)
    ELSE install_each(p, f, cf,
                      IF all THEN <<"PactflowAi", "PactRubyStandalone">>
                      ELSE IF extension.v = "pactflow-ai" THEN <<"PactflowAi">>
                      ELSE <<"PactRubyStandalone">>,
                      1, version, envA, envR)

\* the orders in which a listing is iterated (a HashMap has no order of its
\* own) that the model draws from
ListSeq == <<"pactflow-ai", "pact-legacy">> \o TargetSeq
ListOrders == {ListSeq, Reverse(ListSeq)}

\* update_command that asks for the latest version and leaves an extension
\* alone when its record already carries that version
update_command_skip_current(p, f, cf, all, extension, order, envA, envR) ==
    LET extensions == list_extensions(p, f, cf)
        Installed(n) == n \in DOMAIN extensions /\ extensions[n].installed
        installed_extensions == SelectSeq(order, Installed)
        latest(n) == IF extensions[n].extension_type = "PactflowAi"
                     THEN get_latest_pactflow_ai_version(envA.latest)
                     ELSE get_latest_ruby_standalone_version(envR.latest)
    IN
    IF all /\ installed_extensions = <<>>
    THEN Result(f, cf, <<"No extensions installed">>, 0, NoUrl)
    ELSE IF ~all /\ ~extension.some
    THEN Result(f, cf, <<"Please specify an extension name or use --all flag">>,
                0, NoUrl)
    ELSE IF ~all /\ extension.v \notin DOMAIN extensions
    THEN Result(f, cf, <<"Extension not found", extension.v>>, 0, NoUrl)
    ELSE IF ~all /\ ~extensions[extension.v].installed
    THEN Result(f, cf, <<"Extension is not installed", extension.v>>, 0, NoUrl)
    ELSE IF ~all /\ latest(extension.v).ok
            /\ latest(extension.v).val = extensions[extension.v].version
    THEN Result(f, cf, Ok, 1, NoUrl)
    ELSE LET names == IF all THEN installed_extensions ELSE <<extension.v>>
         IN install_each(p, f, cf,
                         [k \in DOMAIN names |-> extensions[names[k]].extension_type],
                         1, None, envA, envR)

\* update_command that does not look at the installed flag of the name
update_command_any_listed(p, f, cf, all, extension, order, envA, envR) ==
    LET extensions == list_extensions(p, f, cf)
        Installed(n) == n \in DOMAIN extensions /\ extensions[n].installed
        installed_extensions == SelectSeq(order, Installed)
    IN
    IF all /\ installed_extensions = <<>>
    THEN Result(f, cf, <<"No extensions installed">>, 0, NoUrl)
    ELSE IF ~all /\ ~extension.some
    THEN Result(f, cf, <<"Please specify an extension name or use --all flag">>,
                0, NoUrl)
    ELSE IF ~all /\ extension.v \notin DOMAIN extensions
    THEN Result(f, cf, <<"Extension not found", extension.v>>, 0, NoUrl)
    ELSE LET names == IF all THEN installed_extensions ELSE <<extension.v>>
         IN install_each(p, f, cf,
                         [k \in DOMAIN names |-> extensions[names[k]].extension_type],
                         1, None, envA, envR)

\* `extension update [extension] [--all]`: with --all every name that the
\* listing taken at the start reports as installed, re-installed by its type
update_command(p, f, cf, all, extension, order, envA, envR) ==
    LET extensions == list_extensions(p, f, cf)
        Installed(n) == n \in DOMAIN extensions /\ extensions[n].installed
        installed_extensions == SelectSeq(order, Installed)
    IN
    IF all /\ installed_extensions = <<>>
    THEN Result(f, cf, <<"No extensions installed">>, 0, NoUrl)
    ELSE IF ~all /\ ~extension.some
    THEN Result(f, cf, <<"Please specify an extension name or use --all flag">>,
                0, NoUrl)
    ELSE IF ~all /\ extension.v \notin DOMAIN extensions
    THEN Result(f, cf, <<"Extension not found", extension.v>>, 0, NoUrl)
    ELSE IF ~all /\ ~extensions[extension.v].installed
    THEN Result(f, cf, <<"Extension is not installed", extension.v>>, 0, NoUrl)
    ELSE LET names == IF all THEN installed_extensions ELSE <<extension.v>>
         IN install_each(p, f, cf,
                         [k \in DOMAIN names |-> extensions[names[k]].extension_type],
                         1, None, envA, envR)

\* the uninstalls of one command; the first error ends the command
RECURSIVE uninstall_each(_, _, _, _, _, _)
uninstall_each(p, f, cf, names, i, envs) ==
    IF i > Len(names) THEN Result(f, cf, Ok, 0, NoUrl)
    ELSE
    CHOOSE out \in
        {IF ~IsOk(r.res) THEN r
         ELSE uninstall_each(p, r.fs, r.cf, names, i + 1, envs) :
           r \in {uninstall_extension(p, f, cf, names[i], envs[names[i]])}} : TRUE

\* `extension uninstall [extension] [--all]`: with --all every installed name
\* of the listing, of the bundle only the master
\*   envs  for each name, what the disk answers to its uninstall
uninstall_command(p, f, cf, all, extension, order, envs) ==
    LET extensions == list_extensions(p, f, cf)
        Retained(n) ==
            /\ n \in DOMAIN extensions
            /\ extensions[n].installed
            /\ extensions[n].extension_type = "PactRubyStandalone" =>
                   n = "pact-legacy"
        installed_extensions == SelectSeq(order, Retained)
    IN
    IF ~all /\ ~extension.some
    THEN Result(f, cf, <<"Please specify an extension name or use --all flag">>,
                0, NoUrl)
    ELSE uninstall_each(p, f, cf,
                        IF all THEN installed_extensions ELSE <<extension.v>>,
                        1, envs)

(***************************************************************************)
(* The extension subcommands, one process after another, from a home that  *)
(* holds nothing                                                           *)
(***************************************************************************)
\* --version: one string, given to whichever install runs
CommandVersions == {None} \cup {Some(v) : v \in RubyVersions}

\* the latest-version endpoint, asked, answers with a version; the download
\* answers with success or not; the disk obeys
CommandAiEnvs(version) ==
    {[latest |-> IF version.some
                 THEN [sent |-> FALSE, status |-> 0, body |-> <<>>]
                 ELSE [sent |-> TRUE, status |-> 200, body |-> <<"2", "\n">>],
      dl |-> [sent |-> TRUE, status |-> st], io |-> "none", at |-> 0,
      partial |-> {}] : st \in {200, 404}}

\* the disk may refuse at the registry write and at the removal of the archive
CommandRubyEnvs(version) ==
    {[latest |-> IF version.some
                 THEN [sent |-> FALSE, status |-> 0, json |-> FALSE, tag |-> None]
                 ELSE [sent |-> TRUE, status |-> 200, json |-> TRUE,
                       tag |-> Some(<<"v", "2">>)],
      dl |-> [sent |-> TRUE, status |-> x[1]], io |-> x[2], at |-> 0,
      partial |-> {}] :
       x \in {<<200, "none">>, <<404, "none">>, <<200, "save_write">>,
              <<200, "rm_archive">>}}

CommandUpdateNames == {"mock-legacy", "pact-legacy", "no-such"}
CommandNames == {"pactflow-ai", "no-such", MasterName} \cup Targets

\* what the disk answers to each uninstall of a command: a refusal, if any,
\* meets the uninstall of the bundle
CommandUninstallEnvs ==
    {[n \in CommandNames |->
         IF n = MasterName THEN e
         ELSE [order |-> TargetSeq, io |-> "none", at |-> 0, partial |-> {}]] :
       e \in {[order |-> TargetSeq, io |-> x[1], at |-> x[2], partial |-> {}] :
                 x \in {<<"none", 0>>, <<"rm", 1>>, <<"rmdir", 0>>,
                        <<"save_write", 0>>}}}

\* last.reqs, last.url: the requests the command sent and the URL of its
\* last download
Command(op, name, r) ==
    /\ fs' = r.fs
    /\ cfgFile' = r.cf
    /\ last' = [op |-> op, name |-> name, res |-> r.res,
                again |-> IF last.op = op /\ last.name = name /\ IsOk(last.res)
                          THEN IF r.cf = cfgFile THEN "same" ELSE "changed"
                          ELSE "no",
                reqs |-> r.reqs, url |-> r.url]
    /\ UNCHANGED <<platform, content, env_args, procs, broker>>

StartCommand ==
    [op |-> "start", name |-> "", res |-> Ok, again |-> "no", reqs |-> 0,
     url |-> NoUrl]

\* the subcommands branch on nothing of the platform; the installs they call
\* are followed on every platform above
InitCommand ==
    /\ platform = [os |-> "linux", arch |-> "x86_64"]
    /\ fs = EmptyFs
    /\ cfgFile = MissingFile
    /\ content = NoContent
    /\ procs = NoProcs
    /\ broker = NoBroker
    /\ env_args = NoArgs
    /\ last = StartCommand

\* an answer for the family that a command does not install
AnyAiEnv == CHOOSE e \in CommandAiEnvs(None) : Fair(e)
AnyRubyEnv == CHOOSE e \in CommandRubyEnvs(None) : Fair(e)

InstallAi ==
    \E version \in CommandVersions : \E envA \in CommandAiEnvs(version) :
      \E r \in {install_command(platform, fs, cfgFile, FALSE, Some("pactflow-ai"),
                                version, envA, AnyRubyEnv)} :
        Command("install", "pactflow-ai", r)

InstallLegacy ==
    \E version \in CommandVersions : \E envR \in CommandRubyEnvs(version) :
      \E r \in {install_command(platform, fs, cfgFile, FALSE, Some(MasterName),
                                version, AnyAiEnv, envR)} :
        Command("install", MasterName, r)

\* `extension install <derived name>`
InstallDerived ==
    \E r \in {install_command(platform, fs, cfgFile, FALSE, Some("mock-legacy"),
                              None, AnyAiEnv, AnyRubyEnv)} :
      Command("install", "mock-legacy", r)

InstallAll ==
    \E version \in CommandVersions :
      \E envA \in CommandAiEnvs(version) :
        \E envR \in {e \in CommandRubyEnvs(version) : e.io \in {"none", "save_write"}} :
          \E r \in {install_command(platform, fs, cfgFile, TRUE, NoExtension,
                                    version, envA, envR)} :
            Command("install", "--all", r)

UpdateAi ==
    \E envA \in CommandAiEnvs(None) :
      \E r \in {update_command(platform, fs, cfgFile, FALSE, Some("pactflow-ai"),
                               ListSeq, envA, AnyRubyEnv)} :
        Command("update", "pactflow-ai", r)

UpdateLegacy ==
    \E name \in CommandUpdateNames :
      \E envR \in {e \in CommandRubyEnvs(None) : e.io \in {"none", "rm_archive"}} :
        \E r \in {update_command(platform, fs, cfgFile, FALSE, Some(name),
                                 ListSeq, AnyAiEnv, envR)} :
          Command("update", name, r)

UpdateAll ==
    \E order \in ListOrders :
      \E envR \in {e \in CommandRubyEnvs(None) : Fair(e)} :
        \E r \in {update_command(platform, fs, cfgFile, TRUE, NoExtension, order,
                                 AnyAiEnv, envR)} :
          Command("update", "--all", r)

UninstallOne ==
    \E name \in UninstallNames :
      \E envs \in {x \in CommandUninstallEnvs :
                     name # MasterName => x[MasterName].io = "none"} :
        \E r \in {uninstall_command(platform, fs, cfgFile, FALSE, Some(name),
                                    ListSeq, envs)} :
          Command("uninstall", name, r)

UninstallAll ==
    \E order \in ListOrders :
      \E envs \in {x \in CommandUninstallEnvs : x[MasterName].io \in {"none", "rmdir"}} :
        \E r \in {uninstall_command(platform, fs, cfgFile, TRUE, NoExtension,
                                    order, envs)} :
          Command("uninstall", "--all", r)

NextCommand ==
    \/ InstallAi
    \/ InstallLegacy
    \/ InstallDerived
    \/ InstallAll
    \/ UpdateAi
    \/ UpdateLegacy
    \/ UpdateAll
    \/ UninstallOne
    \/ UninstallAll

SpecCommand == InitCommand /\ [][NextCommand]_vars

(***************************************************************************)
(* Properties of the subcommands                                           *)
(***************************************************************************)
\* C21: a derived record never outlives its master: in every persisted
\* registry state reachable by any sequence of install, update,
\* uninstall <name> and uninstall --all from an empty registry, if any derived
\* bundle-tool record is present then the master 'pact-legacy' record is
\* present.
C21_DerivedNeverOutlivesMaster ==
    (\E t \in Targets : t \in DOMAIN Registry) => MasterName \in DOMAIN Registry

\* a derived tool was uninstalled on its own: its record is gone, the master
\* and the other derived records are still there
C21_Witness ==
    /\ last.op = "uninstall"
    /\ last.name = "pactflow-legacy"
    /\ IsOk(last.res)
    /\ MasterName \in DOMAIN Registry
    /\ "pactflow-legacy" \notin DOMAIN Registry
    /\ \E t \in Targets : t \in DOMAIN Registry

(***************************************************************************)
(* Two CLI processes at the same time.  Nothing locks the registry file:   *)
(* a process reads it with load_config, changes the mapping it holds and   *)
(* writes that mapping with save_config, and the other process may do its  *)
(* own load_config or save_config in between.                              *)
(***************************************************************************)
Procs == {1, 2}

Idle == [pc |-> "idle", op |-> "", config |-> EmptyMap]

RaceOps == {"install_pactflow_ai", "install_ruby_legacy", "uninstall_extension"}

\* the operation of a process, when nothing refuses, run on the files as the
\* process finds them at its load_config
race_op(p, f, cf, op, version) ==
    CASE op = "install_pactflow_ai" ->
           install_pactflow_ai(p, f, cf, version,
                               CHOOSE e \in CommandAiEnvs(version) : Fair(e))
      [] op = "install_ruby_legacy" ->
           install_ruby_legacy(p, f, cf, version,
                               CHOOSE e \in CommandRubyEnvs(version) : Fair(e))
      [] OTHER ->
           uninstall_extension(p, f, cf, "pactflow-ai",
                               [order |-> TargetSeq, io |-> "none", at |-> 0,
                                partial |-> {}])

\* process i runs its operation up to the save_config: it has loaded the
\* registry (extension.rs 259, 472, 540) and holds the changed mapping
ProcLoad(i) ==
    /\ procs[i].pc = "idle"
    /\ \E op \in RaceOps : \E version \in CommandVersions :
         \E r \in {race_op(platform, fs, cfgFile, op, version)} :
           /\ op = "uninstall_extension" => version = None
           /\ IsOk(r.res)
           /\ fs' = r.fs
           /\ procs' = [procs EXCEPT ![i] = [pc |-> "loaded", op |-> op,
                                             config |-> load_config(r.cf)]]
           /\ last' = [op |-> "load_config", name |-> op, res |-> Ok, again |-> "no"]
    /\ UNCHANGED <<platform, cfgFile, content, env_args, broker>>

\* process i writes the mapping it holds (extension.rs 270, 502, 595) and
\* reports success
ProcSave(i) ==
    /\ procs[i].pc = "loaded"
    /\ cfgFile' = save_config(cfgFile, procs[i].config, "done").cf
    /\ procs' = [procs EXCEPT ![i].pc = "done"]
    /\ last' = [op |-> "save_config", name |-> procs[i].op, res |-> Ok, again |-> "no"]
    /\ UNCHANGED <<platform, fs, content, env_args, broker>>

\* process i ends; the next command is a new process
ProcExit(i) ==
    /\ procs[i].pc = "done"
    /\ procs' = [procs EXCEPT ![i] = Idle]
    /\ last' = [op |-> "exit", name |-> procs[i].op, res |-> Ok, again |-> "no"]
    /\ UNCHANGED <<platform, fs, cfgFile, content, env_args, broker>>

InitRace ==
    /\ platform = [os |-> "linux", arch |-> "x86_64"]
    /\ fs = EmptyFs
    /\ cfgFile = MissingFile
    /\ content = NoContent
    /\ env_args = NoArgs
    /\ procs = [i \in Procs |-> Idle]
    /\ broker = NoBroker
    /\ last = Start

NextRace == \E i \in Procs : ProcLoad(i) \/ ProcSave(i) \/ ProcExit(i)

SpecRace == InitRace /\ [][NextRace]_vars

\* C22: with two CLI processes running concurrently and no locking, each doing
\* load_config, mutate, save_config, the registry after a save_config always
\* equals the mapping passed to that save_config, whatever the other process
\* saved in between: no merge of the two writers' changes takes place.  (That
\* there is an interleaving in which both operations report success and the
\* final registry lacks the records of the earlier saver is C22_Witness.)
C22_LastSaveWins ==
    [][\A i \in Procs :
         (procs[i].pc = "loaded" /\ procs'[i].pc = "done") =>
             load_config(cfgFile') = procs[i].config]_vars

\* install pactflow-ai and install pact-legacy have both reported success and
\* the registry holds the bundle records and no 'pactflow-ai' record
C22_Witness ==
    /\ \E i \in Procs : procs[i].pc = "done" /\ procs[i].op = "install_pactflow_ai"
    /\ \E i \in Procs : procs[i].pc = "done" /\ procs[i].op = "install_ruby_legacy"
    /\ last.op = "save_config"
    /\ last.name = "install_ruby_legacy"
    /\ MasterName \in DOMAIN Registry
    /\ "pactflow-ai" \notin DOMAIN Registry
    /\ fs.aiBin.present

\* C23: within one process, every load_config observes the most recent
\* save_config of that process: after `extension install --all` succeeds from
\* an empty registry, the registry holds the 'pactflow-ai' record written by
\* the first install together with the 'pact-legacy' master and the derived
\* records written by the second; the second install's write does not discard
\* the first's.
C23_InstallAllKeepsBothFamilies ==
    [][(/\ last'.op = "install"
        /\ last'.name = "--all"
        /\ IsOk(last'.res)
        /\ load_config(cfgFile) = EmptyMap) =>
           LET reg == load_config(cfgFile')
           IN /\ DOMAIN reg = {"pactflow-ai", MasterName} \cup Targets
              /\ reg["pactflow-ai"].extension_type = "PactflowAi"
              /\ reg["pactflow-ai"].installed
              /\ \A n \in {MasterName} \cup Targets :
                   reg[n].extension_type = "PactRubyStandalone"]_vars

\* install --all, with no --version, has succeeded on a home that held
\* nothing: four requests were sent and all eight records are there
C23_Witness ==
    /\ last.op = "install"
    /\ last.name = "--all"
    /\ IsOk(last.res)
    /\ last.reqs = 4
    /\ last.again = "no"
    /\ DOMAIN Registry = {"pactflow-ai", MasterName} \cup Targets
    /\ Registry["pactflow-ai"].version = <<"2">>
    /\ Registry[MasterName].version = <<"v", "2">>

BundleNames == {MasterName} \cup Targets

\* the removals of uninstall_extension("pact-legacy") on the registry reg and
\* the tree f are done in the tree f2: the bundle directory is gone and so is
\* the alias of every derived record whose path existed
RemovalsDone(reg, f, f2) ==
    /\ ~f2.rubyDir
    /\ \A t \in Targets :
         (/\ t \in DOMAIN reg
          /\ reg[t].extension_type = "PactRubyStandalone"
          /\ Exists(platform, f, reg[t].binary_path)) => f2.alias[t] = "none"

\* C24: uninstall_extension("pact-legacy") persists the registry once, as its
\* last step, only after every alias removal and the removal of the bundle
\* directory have been done; the persisted registry holds, after the
\* operation as before it, either the bundle records it held before or none
\* of them, never only some; if a removal fails the registry file is not
\* written.
C24_UninstallMasterWritesOnceAtTheEnd ==
    [][(last'.op = "uninstall" /\ last'.name = MasterName) =>
          LET reg == load_config(cfgFile)
              reg2 == load_config(cfgFile')
          IN /\ cfgFile' # cfgFile => RemovalsDone(reg, fs, fs')
             /\ last'.res \in {<<"io: remove_file">>, <<"io: remove_dir_all">>} =>
                    cfgFile' = cfgFile
             /\ IsOk(last'.res) => DOMAIN reg2 = DOMAIN reg \ BundleNames
             /\ DOMAIN reg2 \cap BundleNames \in {DOMAIN reg \cap BundleNames, {}}
             /\ \A n \in DOMAIN reg2 : reg2[n] = reg[n]]_vars

\* the removal of an alias was refused while the bundle was uninstalled: the
\* registry still holds the master and every derived record
C24_Witness ==
    /\ last.op = "uninstall"
    /\ last.name = MasterName
    /\ last.res = <<"io: remove_file">>
    /\ BundleNames \subseteq DOMAIN Registry
    /\ fs.rubyDir

\* the names that `extension list` reports as installed
InstalledNames(f, cf) ==
    LET extensions == list_extensions(platform, f, cf)
    IN {n \in DOMAIN extensions : extensions[n].installed}

\* C25: per extension name, update is a self-loop on Installed:
\* `extension update <name>` may change version fields but moves no extension
\* name from NotInstalled to Installed or back; in particular updating one
\* derived bundle tool does not re-create the record or the alias of another
\* derived tool that had been uninstalled individually.
C25_UpdateIsSelfLoop ==
    [][(last'.op = "update" /\ last'.name # "--all") =>
          /\ InstalledNames(fs', cfgFile') = InstalledNames(fs, cfgFile)
          /\ \A t \in Targets :
               (t # last'.name /\ t \notin DOMAIN load_config(cfgFile)) =>
                   /\ t \notin DOMAIN load_config(cfgFile')
                   /\ fs.alias[t] = "none" => fs'.alias[t] = "none"]_vars

\* C26: `extension update <name>` for a name that list_extensions() reports
\* with installed == false fails with a not-installed error, and for a name
\* absent from list_extensions() fails with a not-found error; in both cases
\* no network request is made and the registry and the filesystem are
\* unchanged.
C26_UpdateOfUninstalledNameFails ==
    [][(last'.op = "update" /\ last'.name # "--all") =>
          LET extensions == list_extensions(platform, fs, cfgFile)
              n == last'.name
          IN /\ n \notin DOMAIN extensions =>
                  /\ last'.res = <<"Extension not found", n>>
                  /\ last'.reqs = 0
                  /\ cfgFile' = cfgFile /\ fs' = fs
             /\ (n \in DOMAIN extensions /\ ~extensions[n].installed) =>
                  /\ last'.res = <<"Extension is not installed", n>>
                  /\ last'.reqs = 0
                  /\ cfgFile' = cfgFile /\ fs' = fs]_vars

\* the bundle is installed from a release that has no mock-service launcher:
\* 'mock-legacy' is recorded with installed == false and its update fails
C26_Witness ==
    /\ last.op = "update"
    /\ last.name = "mock-legacy"
    /\ last.res = <<"Extension is not installed", "mock-legacy">>
    /\ last.reqs = 0
    /\ "mock-legacy" \in DOMAIN Registry
    /\ ~Registry["mock-legacy"].installed
    /\ Registry[MasterName].installed

\* what the network may answer to an install whose disk obeys, the
\* latest-version endpoint included
AnswersOf(latests) ==
    {[latest |-> l, dl |-> d, io |-> "none", at |-> 0, partial |-> {}] :
       l \in latests, d \in DownloadResponses}

\* C27: when install is called with an explicit version, no request is sent
\* to either latest-version endpoint: the only network request of the install
\* is the artifact download, whose URL is built from the supplied version,
\* and the recorded version equals the supplied string verbatim, whatever the
\* latest-version endpoint would have answered.
C27_ExplicitVersionSkipsResolution ==
    \A v \in AiVersions \cup RubyVersions :
      /\ \A env \in AnswersOf(AiLatestResponses) :
           LET r == install_pactflow_ai(platform, fs, cfgFile, Some(v), env)
           IN /\ r.reqs = 1
              /\ r.url[3] = v
              /\ IsOk(r.res) = is_success(env.dl.status)
              /\ IsOk(r.res) => load_config(r.cf)["pactflow-ai"].version = v
      /\ \A env \in AnswersOf(RubyLatestResponses) :
           LET r == install_ruby_legacy(platform, fs, cfgFile, Some(v), env)
           IN /\ r.reqs = 1
              /\ r.url[2] = v
              /\ r.url[3][2] = trim_start_matches(v, "v")
              /\ IsOk(r.res) = is_success(env.dl.status)
              /\ IsOk(r.res) =>
                   \A n \in BundleNames : load_config(r.cf)[n].version = v

\* `extension install pact-legacy --version v1` has succeeded with one request
C27_Witness ==
    /\ last.op = "install"
    /\ last.name = MasterName
    /\ IsOk(last.res)
    /\ last.reqs = 1
    /\ last.url[2] = <<"v", "1">>
    /\ \A n \in BundleNames : Registry[n].version = <<"v", "1">>

\* C28: update of an installed extension never compares versions: it always
\* queries the remote latest-version endpoint and then downloads and
\* re-installs, also when the recorded version already equals the version the
\* endpoint returns.
C28_UpdateAlwaysReinstalls ==
    LET extensions == list_extensions(platform, fs, cfgFile)
    IN \A n \in DOMAIN extensions :
         extensions[n].installed =>
           \A envA \in CommandAiEnvs(None) :
             \A envR \in {e \in CommandRubyEnvs(None) : e.dl = envA.dl} :
               LET r == update_command(platform, fs, cfgFile, FALSE, Some(n),
                                       ListSeq, envA, envR)
                   mine == IF extensions[n].extension_type = "PactflowAi"
                           THEN envA ELSE envR
                   latest == IF extensions[n].extension_type = "PactflowAi"
                             THEN get_latest_pactflow_ai_version(envA.latest).val
                             ELSE get_latest_ruby_standalone_version(envR.latest).val
               IN /\ r.reqs = 2
                  /\ r.url # NoUrl
                  /\ Fair(mine) =>
                       /\ IsOk(r.res)
                       /\ n \in DOMAIN load_config(r.cf)
                       /\ load_config(r.cf)[n].version = latest
                       /\ load_config(r.cf)[n].installed

\* a bundle tool was updated a second time in a row: two requests were sent
\* although the record carried the latest version, and the registry file is
\* as it was
C28_Witness ==
    /\ last.op = "update"
    /\ last.name = "mock-legacy"
    /\ IsOk(last.res)
    /\ last.again = "same"
    /\ last.reqs = 2
    /\ last.url # NoUrl
    /\ Registry["mock-legacy"].version = <<"v", "2">>

\* C29: whenever run_extension fails with the not-installed error for a name,
\* the command it names, `pact extension install <name>`, is a command the
\* install subcommand accepts for that name; this holds for every name that
\* can be in the registry with installed == false, the derived bundle-tool
\* names included.
C29_RemediationIsAccepted ==
    \A n \in DOMAIN Registry :
      LET err == run_extension(platform, fs, cfgFile, n, <<>>, {})
      IN err[1] = "Extension is not installed" =>
           LET cmd == remediation(err)
           IN /\ cmd = <<"pact", "extension", "install", n>>
              /\ install_accepts(Some(cmd[4]))
              /\ install_command(platform, fs, cfgFile, FALSE, Some(cmd[4]),
                                 None, AnyAiEnv, AnyRubyEnv).res[1]
                   # "clap: invalid value"

\* C30: in every persisted registry state reachable by install, update and
\* uninstall in one process, the master 'pact-legacy' record and all derived
\* bundle-tool records present carry the same version string, the version of
\* the last successful bundle install: the bundle records agree after every
\* command, and a command leaves a bundle record with a version it did not
\* carry before only if it is an install or update that succeeded.
C30_BundleVersionIsLastSuccessfulInstall ==
    [][LET old == load_config(cfgFile)
           reg == load_config(cfgFile')
           present == BundleNames \cap DOMAIN reg
       IN /\ \A a \in present : \A b \in present :
                reg[a].version = reg[b].version
          /\ \A n \in present :
                (n \notin DOMAIN old \/ old[n].version # reg[n].version) =>
                  /\ last'.op \in {"install", "update"}
                  /\ IsOk(last'.res)]_vars

(***************************************************************************)
(* install --all: one family after the other                               *)
(***************************************************************************)
\* the answers to the single-binary install of an install --all: those of the
\* commands, and a disk that refuses the write of the registry
SequenceAiEnvs(version) ==
    CommandAiEnvs(version)
      \cup {[e EXCEPT !.io = "save_write"] :
              e \in {a \in CommandAiEnvs(version) : a.dl.status = 200}}

\* C31: in `extension install --all` the two families are installed strictly
\* one after the other: the bundle install starts from the disk and the
\* registry file that the single-binary install has left, with the
\* 'pactflow-ai' record persisted, and its requests come after those of the
\* single-binary install; when the single-binary install fails the bundle
\* install is not attempted and makes no network request.
C31_InstallAllIsSequential ==
    \A version \in CommandVersions :
      \A envA \in SequenceAiEnvs(version) :
        \A envR \in CommandRubyEnvs(version) :
          LET ai == install_pactflow_ai(platform, fs, cfgFile, version, envA)
              both == install_command(platform, fs, cfgFile, TRUE, NoExtension,
                                      version, envA, envR)
          IN IF ~IsOk(ai.res)
             THEN /\ both.res = ai.res
                  /\ both.reqs = ai.reqs
                  /\ both.url = ai.url
                  /\ both.fs = ai.fs
                  /\ both.cf = ai.cf
                  /\ both.fs.rubyDir = fs.rubyDir
             ELSE LET ruby == install_ruby_legacy(platform, ai.fs, ai.cf,
                                                  version, envR)
                  IN /\ "pactflow-ai" \in DOMAIN load_config(ai.cf)
                     /\ both.res = ruby.res
                     /\ both.reqs = ai.reqs + ruby.reqs
                     /\ both.fs = ruby.fs
                     /\ both.cf = ruby.cf
                     /\ ruby.reqs > 0

\* install --all with --version has failed at the download of the single
\* binary: that one request was all that was sent, and no bundle is on disk
C31_Witness ==
    /\ last.op = "install"
    /\ last.name = "--all"
    /\ ~IsOk(last.res)
    /\ last.reqs = 1
    /\ ~fs.rubyDir
    /\ "pact-legacy" \notin DOMAIN Registry

(***************************************************************************)
(* Invocations that name a static command, with extensions of the same     *)
(* name in the registry                                                    *)
(***************************************************************************)
\* a static subcommand, a subcommand of the pactflow client, and a word that
\* is neither
StaticWords == {"mock", "stub", "publish-provider-contract", "ai"}

StaticArgvs ==
    {<<"pact">> \o g \o w :
       g \in {<<>>, <<"--enable-otel">>},
       w \in {<<t>> : t \in StaticWords}
               \cup {<<"pactflow", t>> : t \in StaticWords}
               \cup {<<t, "ai">> : t \in {"mock", "stub"}}}

\* the names of the records that the registry file may hold besides those the
\* installs write: the same names as the words, alone and under "pactflow-"
RecordedNames ==
    {"mock", "stub", "pactflow-publish-provider-contract"}

\* the registry file is read as it is found: a record of type External that
\* was put there, with installed == true
RecordExternal ==
    \E n \in RecordedNames :
      /\ cfgFile.state # "corrupt"
      /\ n \notin DOMAIN load_config(cfgFile)
      /\ cfgFile' = StoredFile(load_config(cfgFile)
                               @@ (n :> ExtensionConfig(n, <<"1">>, <<"opt", n>>,
                                                        "External", TRUE)))
      /\ last' = [op |-> "record_external", name |-> n, res |-> Ok,
                  again |-> "no"]
      /\ UNCHANGED <<platform, fs, content, env_args, procs, broker>>

InitStatic ==
    /\ platform \in MainPlatforms
    /\ fs = EmptyFs
    /\ cfgFile = MissingFile
    /\ content = NoContent
    /\ procs = NoProcs
    /\ broker = NoBroker
    /\ env_args \in StaticArgvs
    /\ last = Start

NextStatic ==
    \/ Main
    \/ RecordExternal
    \/ InstallPactflowAiFair
    \/ LoseRegistry

SpecStatic == InitStatic /\ [][NextStatic]_vars

\* whether the words of argv select a command of the static command set
IsStaticMatch(argv) ==
    LET m == try_get_matches(argv)
    IN \/ m.kind = "static"
       \/ m.kind = "pactflow external" /\ m.token \in get_known_pactflow_commands

\* C32: a token that matches the static command set is never routed to the
\* Invoker: a top-level static subcommand, and a token under 'pactflow' that
\* is a known pactflow subcommand, are handled by the static command even
\* when an extension of the same name ('<token>' or 'pactflow-<token>') is
\* recorded as installed.
C32_StaticTokenIsNeverRouted ==
    /\ (last.op = "main" /\ IsStaticMatch(env_args)) => ~last.res[2].routed
    /\ IsStaticMatch(env_args) =>
         \A onPath \in PathSets \cup {{"pact-mock"}, {"pact-stub"}} :
           LET r == main(platform, fs, cfgFile, env_args, onPath)
           IN /\ ~r.routed
              /\ r.out \in {<<"static", "static">>, <<"pactflow_client">>}

\* `pact pactflow publish-provider-contract` has been run while the registry
\* holds an installed 'pactflow-publish-provider-contract'; the pactflow
\* client got it
C32_Witness ==
    /\ last.op = "main"
    /\ env_args = <<"pact", "pactflow", "publish-provider-contract">>
    /\ "pactflow-publish-provider-contract" \in DOMAIN Registry
    /\ Registry["pactflow-publish-provider-contract"].installed
    /\ "mock" \in DOMAIN Registry
    /\ ~last.res[2].routed
    /\ last.res[2].out = <<"pactflow_client">>

\* C33: whenever `extension uninstall --all` returns success, list_extensions()
\* afterwards reports no extension with installed == true, also from states
\* where an alias or binary of a builtin is on disk with no registry record.
C33_UninstallAllLeavesNothingInstalled ==
    (last.op = "uninstall" /\ last.name = "--all" /\ IsOk(last.res)) =>
        LET extensions == list_extensions(platform, fs, cfgFile)
        IN \A n \in DOMAIN extensions : ~extensions[n].installed

\* C34: uninstall_extension(name) for any name that has no record in the
\* registry, 'pact-legacy' included, returns a not-installed error and leaves
\* the registry file and the filesystem unchanged.
C34_UninstallOfUnrecordedNameFails ==
    \A n \in CommandNames :
      n \notin DOMAIN Registry =>
        LET r == uninstall_extension(platform, fs, cfgFile, n,
                                     [order |-> TargetSeq, io |-> "none",
                                      at |-> 0, partial |-> {}])
        IN /\ r.res = <<"Extension is not installed.", n>>
           /\ r.fs = fs
           /\ r.cf = cfgFile

\* the records of a registry other than those of the names
Without(reg, names) == [n \in DOMAIN reg \ names |-> reg[n]]

\* what the disk answers to an uninstall: nothing refused, or the write of the
\* registry refused
FrameUninstallEnvs ==
    {[order |-> TargetSeq, io |-> x, at |-> 0, partial |-> {}] :
       x \in {"none", "save_write"}}

\* C35: install and uninstall change only the records they own:
\* install_pactflow_ai changes no record other than 'pactflow-ai'; a bundle
\* install changes no record other than the master and the six derived names;
\* uninstall_extension(name) for a name other than 'pact-legacy' removes only
\* that record and only the file at its binary_path;
\* uninstall_extension("pact-legacy") leaves every record of another extension
\* kind and its file unchanged.
C35_OnlyOwnedRecordsChange ==
    /\ \A version \in CommandVersions :
         /\ \A envA \in SequenceAiEnvs(version) :
              LET r == install_pactflow_ai(platform, fs, cfgFile, version, envA)
              IN Without(load_config(r.cf), {"pactflow-ai"})
                   = Without(Registry, {"pactflow-ai"})
         /\ \A envR \in CommandRubyEnvs(version) :
              LET r == install_ruby_legacy(platform, fs, cfgFile, version, envR)
              IN /\ Without(load_config(r.cf), BundleNames)
                      = Without(Registry, BundleNames)
                 /\ r.fs.aiBin = fs.aiBin
    /\ \A env \in FrameUninstallEnvs :
         /\ \A n \in DOMAIN Registry \ {MasterName} :
              LET r == uninstall_extension(platform, fs, cfgFile, n, env)
              IN /\ Without(load_config(r.cf), {n}) = Without(Registry, {n})
                 /\ r.fs.rubyDir = fs.rubyDir
                 /\ r.fs.srcs = fs.srcs
                 /\ \A t \in Targets \ {n} : r.fs.alias[t] = fs.alias[t]
                 /\ n # "pactflow-ai" => r.fs.aiBin = fs.aiBin
         /\ LET r == uninstall_extension(platform, fs, cfgFile, MasterName, env)
                Other(reg) == {n \in DOMAIN reg :
                                 reg[n].extension_type # "PactRubyStandalone"}
            IN /\ Without(load_config(r.cf), DOMAIN Registry \ Other(Registry))
                    = Without(Registry, DOMAIN Registry \ Other(Registry))
               /\ r.fs.aiBin = fs.aiBin

\* C36: whenever a routed extension process exits unsuccessfully, the CLI's
\* own exit code is nonzero: for every child exit code other than 0, and for
\* a child with no exit code, the code the CLI returns after the conversion
\* to an 8-bit exit code is not 0 (the external subcommand branch and the
\* pactflow extension branch of main).
C36_UnsuccessfulChildGivesNonzeroExit ==
    (/\ MainSpawned
     /\ MainKind \in {"external", "pactflow external"}
     /\ ~success(MainStatus)) => MainExit.code # 0

\* the families that an update installs
Families == {"PactflowAi", "PactRubyStandalone"}

\* C37: one `extension update --all` resolves the latest version and downloads
\* the artifact at most once per extension family, however many installed
\* records of that family list_extensions() returns.
C37_UpdateAllOncePerFamily ==
    (last.op = "update" /\ last.name = "--all") =>
        \* one install with no --version sends two requests: the latest
        \* version, then the download
        last.reqs <= 2 * Cardinality(Families)

(***************************************************************************)
(* broker ruby start: the command, the server it spawns and the PID file   *)
(***************************************************************************)
\* the text of a file is the sequence of its characters
NumericChars == {"0", "1", "2", "3", "4", "5", "6", "7", "8", "9"}
\* String::from("unknown")
Unknown == <<"u", "n", "k", "n", "o", "w", "n">>

\* s.chars().all(char::is_numeric): true of the empty string
all_numeric(s) == \A i \in DOMAIN s : s[i] \in NumericChars

\* whether str::parse::<u32> returns Ok (the texts followed here are short)
parse_u32_ok(s) == s # <<>> /\ all_numeric(s)

\* <home>/.pact/pact-broker/broker.pid
PidFile(present, text) == [present |-> present, text |-> text]
NoPidFile == PidFile(FALSE, <<>>)

\* fs::read_to_string(&pid_file_path).unwrap_or_else(|_| String::from("unknown"))
read_to_string_or_unknown(file) == IF file.present THEN file.text ELSE Unknown

\* what the server writes into its PID file, and what a PID file left by an
\* earlier run may hold
ServerPidTexts == {<<"4", "2">>, <<"4", "2", "\n">>}
StalePidFiles ==
    {NoPidFile} \cup {PidFile(TRUE, t) : t \in ServerPidTexts \cup {<<>>, <<"x">>}}

BrokerStep(b) ==
    /\ broker' = b
    /\ UNCHANGED <<platform, fs, cfgFile, content, env_args, procs, last>>

\* check_if_installed, install, and the spawn of the server
BrokerSpawn ==
    /\ broker.pc = "start"
    /\ \E install_ok \in BOOLEAN : \E spawn_ok \in BOOLEAN :
         /\ broker.installed => install_ok
         /\ BrokerStep(
              IF ~broker.installed /\ ~install_ok
              THEN [broker EXCEPT !.pc = "returned", !.res = <<"install failed">>]
              ELSE IF ~spawn_ok
              THEN [broker EXCEPT !.pc = "returned", !.installed = TRUE,
                                  !.res = <<"Failed to start Pact Broker">>]
              ELSE [broker EXCEPT !.pc = "poll", !.installed = TRUE,
                                  !.child = "running"])

\* one turn of the first loop: sleep, read the PID file, test the text; then
\* the branch on --detach. broker.turn tells one turn of a loop from the next
BrokerPollPidFile ==
    /\ broker.pc = "poll"
    /\ LET pid_file_contents == read_to_string_or_unknown(broker.pid_file)
       IN BrokerStep([broker EXCEPT
             !.turn = ~@,
             !.contents = pid_file_contents,
             !.pc = IF ~all_numeric(pid_file_contents) THEN "poll"
                    ELSE IF broker.detach THEN "returned" ELSE "wait"])

\* one turn of the second loop: it ends when child.try_wait() returns the
\* exit status, and sleeps otherwise
BrokerWaitChild ==
    /\ broker.pc = "wait"
    /\ BrokerStep(IF broker.child = "exited"
                  THEN [broker EXCEPT !.pc = "stop"]
                  ELSE [broker EXCEPT !.turn = ~@])

\* after the second loop: the PID file is opened, read and parsed with
\* unwrap, then removed
BrokerStop ==
    /\ broker.pc = "stop"
    /\ BrokerStep(
         IF broker.pid_file.present /\ ~parse_u32_ok(trim(broker.pid_file.text))
         THEN [broker EXCEPT !.pc = "panicked", !.res = <<"panic: unwrap">>]
         ELSE [broker EXCEPT !.pc = "returned", !.pid_file = NoPidFile])

\* the server writes its PID file
ServerWritesPid ==
    /\ broker.child = "running"
    /\ \E t \in ServerPidTexts :
         BrokerStep([broker EXCEPT !.child = "serving",
                                   !.pid_file = PidFile(TRUE, t)])

\* the server process ends, before or after it wrote its PID file; it may
\* remove the file as it ends
ServerExits ==
    /\ broker.child \in {"running", "serving"}
    /\ \E file \in {broker.pid_file, NoPidFile} :
         BrokerStep([broker EXCEPT !.child = "exited", !.pid_file = file])

\* the command on unix; the Windows build also runs taskkill before it
\* removes the PID file, which changes nothing of what is followed here
InitBroker ==
    /\ platform = [os |-> "linux", arch |-> "x86_64"]
    /\ fs = EmptyFs
    /\ cfgFile = MissingFile
    /\ content = NoContent
    /\ procs = NoProcs
    /\ env_args = NoArgs
    /\ last = Start
    /\ broker \in [pc : {"start"}, detach : BOOLEAN, installed : BOOLEAN,
                   child : {"none"}, pid_file : StalePidFiles,
                   contents : {Unknown}, turn : {FALSE}, res : {Ok}]

NextBroker ==
    \/ BrokerSpawn
    \/ BrokerPollPidFile
    \/ BrokerWaitChild
    \/ BrokerStop
    \/ ServerWritesPid
    \/ ServerExits

\* the command runs whenever it can take a step; nothing is assumed of the
\* server
SpecBroker ==
    /\ InitBroker
    /\ [][NextBroker]_vars
    /\ WF_vars(BrokerSpawn)
    /\ WF_vars(BrokerPollPidFile)
    /\ WF_vars(BrokerWaitChild)
    /\ WF_vars(BrokerStop)

\* C38: `broker ruby start` eventually returns whenever the spawned server
\* process exits: if the child terminates, with or without having written a
\* numeric PID file, the command leaves its wait loops and ends instead of
\* polling the PID file forever.
C38_StartEndsWhenServerExits ==
    (broker.child = "exited") ~> (broker.pc \in {"returned", "panicked"})

(***************************************************************************)
(* The three target tables, arm by arm                                     *)
(***************************************************************************)
\* the arms of the match in get_pactflow_ai_url, get_pactflow_ai_download_url
\* and get_ruby_standalone_target, in the order of the source, without the
\* `_` arm: <<os, arch, target>>
ai_latest_arms ==
    << <<"darwin", "aarch64", "aarch64-apple-darwin">>,
       <<"darwin", "x86_64", "x86_64-apple-darwin">>,
       <<"windows", "aarch64", "aarch64-pc-windows-msvc">>,
       <<"windows", "x86_64", "x86_64-pc-windows-msvc">>,
       <<"linux", "aarch64", "aarch64-unknown-linux-gnu">>,
       <<"linux", "x86_64", "x86_64-unknown-linux-gnu">> >>

ai_download_arms ==
    << <<"darwin", "aarch64", "aarch64-apple-darwin">>,
       <<"darwin", "x86_64", "x86_64-apple-darwin">>,
       <<"windows", "aarch64", "aarch64-pc-windows-msvc">>,
       <<"windows", "x86_64", "x86_64-pc-windows-msvc">>,
       <<"linux", "aarch64", "aarch64-unknown-linux-gnu">>,
       <<"linux", "x86_64", "x86_64-unknown-linux-gnu">> >>

\* the table of the bundle family without an arm for Windows on aarch64
ruby_target_arms_no_windows_aarch64 ==
    << <<"darwin", "aarch64", "osx-arm64">>,
       <<"darwin", "x86_64", "osx-x86_64">>,
       <<"windows", "x86_64", "windows-x86_64">>,
       <<"linux", "aarch64", "linux-arm64">>,
       <<"linux", "x86_64", "linux-x86_64">> >>

ruby_target_arms ==
    << <<"darwin", "aarch64", "osx-arm64">>,
       <<"darwin", "x86_64", "osx-x86_64">>,
       <<"windows", "aarch64", "windows-x86_64">>,
       <<"windows", "x86_64", "windows-x86_64">>,
       <<"linux", "aarch64", "linux-arm64">>,
       <<"linux", "x86_64", "linux-x86_64">> >>

\* the arm that a match over the arms takes for the pair: the first whose
\* pattern is the pair, 0 for the `_` arm
match_arm(arms, p) ==
    IF \E i \in DOMAIN arms : arms[i][1] = p.os /\ arms[i][2] = p.arch
    THEN CHOOSE i \in DOMAIN arms :
           /\ arms[i][1] = p.os /\ arms[i][2] = p.arch
           /\ \A j \in 1..(i - 1) : ~(arms[j][1] = p.os /\ arms[j][2] = p.arch)
    ELSE 0

\* the value of the match: the target of the arm taken
match_target(arms, fallback, p) ==
    IF match_arm(arms, p) = 0 THEN fallback ELSE arms[match_arm(arms, p)][3]

\* C39: for every (os, arch) pair of the supported matrix, none of the three
\* target tables (latest-version URL, download URL, bundle target) takes its
\* fallback arm, and the latest-version URL and the download URL of the
\* single-binary family use the same target string for that pair.
C39_SupportedPairsNeverFallBack ==
    /\ ai_latest_target(platform)
         = match_target(ai_latest_arms, "x86_64-unknown-linux-gnu", platform)
    /\ ai_download_target(platform)
         = match_target(ai_download_arms, "x86_64-unknown-linux-gnu", platform)
    /\ get_ruby_standalone_target(platform)
         = match_target(ruby_target_arms, "linux-x86_64", platform)
    /\ is_supported(platform) =>
         /\ match_arm(ai_latest_arms, platform) # 0
         /\ match_arm(ai_download_arms, platform) # 0
         /\ match_arm(ruby_target_arms, platform) # 0
         /\ get_pactflow_ai_url(platform)[2]
              = get_pactflow_ai_download_url(platform, <<"1">>)[2]

\* both families have been installed on Windows on aarch64, the pair whose
\* bundle target is that of another pair
C39_Witness ==
    /\ platform = [os |-> "windows", arch |-> "aarch64"]
    /\ is_supported(platform)
    /\ last.op = "install_ruby_legacy"
    /\ IsOk(last.res)
    /\ fs.aiBin.present
    /\ get_ruby_standalone_target(platform) = "windows-x86_64"

====
